---- MODULE Spec2Model ----
(***************************************************************************)
(* A model of the kOS documentation post-processing pipeline               *)
(* (tools/kos_doc_parser): the entry collection and the stages that        *)
(* inject, deduplicate, cross-reference, tag, classify and validate it.    *)
(* Python strings are TLA+ strings, inspected character by character;      *)
(* Python lists are sequences; Python sets are sets, enumerated in an      *)
(* order that depends on the process's string-hash seed.                   *)
(***************************************************************************)
EXTENDS FiniteSets, Integers, Sequences, TLC

(* ------------------------------ bounds -------------------------------- *)

\* The longest input list of raw entries handed to the pipeline.
MaxEntries == 2

\* Python randomises str hashes per process, so the enumeration order of a
\* set of strings is one of many; the model draws it from seeds 0..MaxSeed.
MaxSeed == 1
\* Most suffixes of one structure in a collection.
MaxSuffixes == 6
\* Longest list handed to the Deduplicator when its loop is followed.
MaxDuplicates == 3
\* Longest list whose entries a stage visits in every order.
MaxVisited == 3

(* --------------------------- Python strings --------------------------- *)

\* Python's None, distinct from every str (in particular from "").
None == "<None>"

\* bool(x) for an Optional[str]: None and "" are falsy.
Truthy(x) == x # None /\ x # ""

\* The characters the model's strings are made of, in code-point order.
Alphabet ==
  "\n !\"#$%&'()*+,-./0123456789:;<=>?@ABCDEFGHIJKLMNOPQRSTUVWXYZ[\\]^_abcdefghijklmnopqrstuvwxyz{|}~"

Char(s, i) == SubSeq(s, i, i)

\* The rank of a character in code-point order.
ord == [c \in {Char(Alphabet, i) : i \in 1..Len(Alphabet)} |->
          CHOOSE i \in 1..Len(Alphabet) : Char(Alphabet, i) = c]

IsUpperChar(c) == ord[c] >= ord["A"] /\ ord[c] <= ord["Z"]
IsLowerChar(c) == ord[c] >= ord["a"] /\ ord[c] <= ord["z"]
IsDigitChar(c) == ord[c] >= ord["0"] /\ ord[c] <= ord["9"]

\* A regular expression's \w on ASCII text.
IsWordChar(c) == IsUpperChar(c) \/ IsLowerChar(c) \/ IsDigitChar(c) \/ c = "_"

upper_char(c) ==
  IF IsLowerChar(c) THEN Char(Alphabet, ord["A"] + (ord[c] - ord["a"])) ELSE c

lower_char(c) ==
  IF IsUpperChar(c) THEN Char(Alphabet, ord["a"] + (ord[c] - ord["A"])) ELSE c

\* upper_char and lower_char as tables over the alphabet.
to_upper == [c \in DOMAIN ord |-> upper_char(c)]
to_lower == [c \in DOMAIN ord |-> lower_char(c)]

\* str.upper()
RECURSIVE upper(_)
upper(s) ==
  IF Len(s) = 0 THEN ""
  ELSE IF Len(s) = 1 THEN to_upper[s]
  ELSE LET h == Len(s) \div 2
       IN upper(SubSeq(s, 1, h)) \o upper(SubSeq(s, h + 1, Len(s)))

\* str.lower()
RECURSIVE lower(_)
lower(s) ==
  IF Len(s) = 0 THEN ""
  ELSE IF Len(s) = 1 THEN to_lower[s]
  ELSE LET h == Len(s) \div 2
       IN lower(SubSeq(s, 1, h)) \o lower(SubSeq(s, h + 1, Len(s)))

\* str.startswith / str.endswith
startswith(s, p) == Len(p) <= Len(s) /\ SubSeq(s, 1, Len(p)) = p
endswith(s, p) == Len(p) <= Len(s) /\ SubSeq(s, Len(s) - Len(p) + 1, Len(s)) = p

\* The positions at which t occurs in s (an empty t occurs at 1..Len(s)+1).
Occurrences(s, t) ==
  {i \in 1..(Len(s) - Len(t) + 1) : SubSeq(s, i, i + Len(t) - 1) = t}

\* Python's `t in s` on strings.
contains(s, t) == Occurrences(s, t) # {}

\* The characters of s, one by one.
chars_of(s) == <<>> \o [i \in 1..Len(s) |-> Char(s, i)]

\* contains(s, t) for a string s whose characters are at hand in `chars`:
\* only a position that holds the first character of t is compared.
contains_chars(chars, s, t) ==
  IF t = "" THEN TRUE
  ELSE LET first == Char(t, 1)
           n == Len(t)
       IN \E i \in 1..(Len(s) - n + 1) : chars[i] = first /\ SubSeq(s, i, i + n - 1) = t

\* a < b on strings: lexicographic by code point.
RECURSIVE str_less(_, _)
str_less(a, b) ==
  IF b = "" THEN FALSE
  ELSE IF a = "" THEN TRUE
  ELSE IF Head(a) = Head(b) THEN str_less(Tail(a), Tail(b))
  ELSE ord[Head(a)] < ord[Head(b)]

\* sorted(S) for a set of strings.
RECURSIVE sorted(_)
sorted(S) ==
  IF S = {} THEN <<>>
  ELSE LET x == CHOOSE a \in S : TRUE
           rest == sorted(S \ {x})
           k == Cardinality({i \in 1..Len(rest) : str_less(rest[i], x)})
       IN SubSeq(rest, 1, k) \o <<x>> \o SubSeq(rest, k + 1, Len(rest))

\* list(S) for a set of strings: the enumeration order follows the hash
\* seed; the model takes the rotations of the sorted order.
list_of_set(S, seed) ==
  LET srt == sorted(S)
      n == Len(srt)
      k == IF n = 0 THEN 0 ELSE seed % n
  IN SubSeq(srt, k + 1, n) \o SubSeq(srt, 1, k)

\* set(xs) for a list.
set_of(xs) == {xs[i] : i \in 1..Len(xs)}

\* str(n) for a small natural number.
RECURSIVE str_of_int(_)
str_of_int(n) ==
  IF n < 10 THEN Char("0123456789", n + 1)
  ELSE str_of_int(n \div 10) \o Char("0123456789", (n % 10) + 1)

\* min(a, b)
min(a, b) == IF a < b THEN a ELSE b

(* ------------------------- static lookup tables ------------------------ *)

TAG_PATTERNS ==
  <<
    [pattern |-> "^VESSEL(:|$)", tags |-> <<"vessel", "core">>],
    [pattern |-> "^SHIP(:|$)", tags |-> <<"vessel", "core">>],
    [pattern |-> "^ORBIT(:|$)", tags |-> <<"orbit">>],
    [pattern |-> "^BODY(:|$)", tags |-> <<"body">>],
    [pattern |-> "^PART(:|$)", tags |-> <<"part">>],
    [pattern |-> "^ENGINE(:|$)", tags |-> <<"part", "control">>],
    [pattern |-> "^SENSOR(:|$)", tags |-> <<"part", "science">>],
    [pattern |-> "^SCIENCE", tags |-> <<"science">>],
    [pattern |-> "^ANTENNA", tags |-> <<"communication", "part">>],
    [pattern |-> "^COMM", tags |-> <<"communication">>],
    [pattern |-> "^DOCK", tags |-> <<"docking", "part">>],
    [pattern |-> "^CREW", tags |-> <<"crew">>],
    [pattern |-> "^KERBAL", tags |-> <<"crew">>],
    [pattern |-> "^MANEUVER", tags |-> <<"maneuver", "orbit">>],
    [pattern |-> "^NODE(:|$)", tags |-> <<"maneuver", "orbit">>],
    [pattern |-> "^STAGE(:|$)", tags |-> <<"staging">>],
    [pattern |-> "^RESOURCE", tags |-> <<"resource", "fuel">>],
    [pattern |-> "^GUI", tags |-> <<"gui">>],
    [pattern |-> "^WIDGET", tags |-> <<"gui">>],
    [pattern |-> "^FILE", tags |-> <<"io">>],
    [pattern |-> "^VOLUME", tags |-> <<"io">>],
    [pattern |-> "^TIME", tags |-> <<"time">>],
    [pattern |-> "^TIMESTAMP", tags |-> <<"time">>],
    [pattern |-> "^LIST(:|$)", tags |-> <<"collection">>],
    [pattern |-> "^LEXICON", tags |-> <<"collection">>],
    [pattern |-> "^ITERATOR", tags |-> <<"collection">>],
    [pattern |-> "^RANGE", tags |-> <<"collection">>],
    [pattern |-> "^QUEUE", tags |-> <<"collection">>],
    [pattern |-> "^STACK", tags |-> <<"collection">>],
    [pattern |-> "^VECTOR(:|$)", tags |-> <<"vector", "math">>],
    [pattern |-> "^DIRECTION(:|$)", tags |-> <<"direction", "navigation">>],
    [pattern |-> "^HEADING", tags |-> <<"direction", "navigation">>],
    [pattern |-> "^GEOPOSITION", tags |-> <<"position", "navigation", "body">>],
    [pattern |-> "^LATLNG", tags |-> <<"position", "navigation">>],
    [pattern |-> "^ATMOSPHERE", tags |-> <<"atmosphere", "body">>],
    [pattern |-> "^WAYPOINT", tags |-> <<"navigation">>],
    [pattern |-> ":ALTITUDE$", tags |-> <<"vessel", "position">>],
    [pattern |-> ":APOAPSIS$", tags |-> <<"orbit">>],
    [pattern |-> ":PERIAPSIS$", tags |-> <<"orbit">>],
    [pattern |-> ":INCLINATION$", tags |-> <<"orbit">>],
    [pattern |-> ":ECCENTRICITY$", tags |-> <<"orbit">>],
    [pattern |-> ":SEMIMAJORAXIS$", tags |-> <<"orbit">>],
    [pattern |-> ":VELOCITY$", tags |-> <<"velocity">>],
    [pattern |-> ":POSITION$", tags |-> <<"position">>],
    [pattern |-> ":FACING$", tags |-> <<"direction", "rotation">>],
    [pattern |-> ":UP$", tags |-> <<"direction">>],
    [pattern |-> ":NORTH$", tags |-> <<"direction">>],
    [pattern |-> ":HEADING$", tags |-> <<"direction", "navigation">>],
    [pattern |-> ":THRUST$", tags |-> <<"control">>],
    [pattern |-> ":THROTTLE$", tags |-> <<"control">>],
    [pattern |-> ":MASS$", tags |-> <<"vessel">>],
    [pattern |-> ":DRYMASS$", tags |-> <<"vessel", "fuel">>],
    [pattern |-> ":WETMASS$", tags |-> <<"vessel", "fuel">>],
    [pattern |-> ":MAXTHRUST$", tags |-> <<"control", "part">>],
    [pattern |-> ":ISP$", tags |-> <<"control", "fuel">>],
    [pattern |-> ":STAGE$", tags |-> <<"staging">>],
    [pattern |-> ":RESOURCES$", tags |-> <<"resource">>],
    [pattern |-> ":FUEL$", tags |-> <<"fuel", "resource">>],
    [pattern |-> ":LIQUIDFUEL$", tags |-> <<"fuel", "resource">>],
    [pattern |-> ":OXIDIZER$", tags |-> <<"fuel", "resource">>],
    [pattern |-> ":MONOPROPELLANT$", tags |-> <<"fuel", "resource">>],
    [pattern |-> ":ELECTRICCHARGE$", tags |-> <<"resource">>],
    [pattern |-> ":CREW$", tags |-> <<"crew">>],
    [pattern |-> ":PARTS$", tags |-> <<"part">>],
    [pattern |-> ":ENGINES$", tags |-> <<"part", "control">>],
    [pattern |-> ":SENSORS$", tags |-> <<"part", "science">>],
    [pattern |-> ":ETA$", tags |-> <<"time", "orbit">>],
    [pattern |-> ":PERIOD$", tags |-> <<"time", "orbit">>],
    [pattern |-> ":BODY$", tags |-> <<"body">>],
    [pattern |-> ":SOI$", tags |-> <<"body", "orbit">>],
    [pattern |-> ":ATMOSPHERE$", tags |-> <<"atmosphere", "body">>],
    [pattern |-> ":HASATMOSPHERE$", tags |-> <<"atmosphere", "body">>],
    [pattern |-> ":STATUS$", tags |-> <<"vessel">>],
    [pattern |-> ":SITUATION$", tags |-> <<"vessel">>],
    [pattern |-> ":CONTROL$", tags |-> <<"control">>],
    [pattern |-> ":CONNECTION$", tags |-> <<"communication">>],
    [pattern |-> ":SIGNAL$", tags |-> <<"communication">>],
    [pattern |-> ":EXPERIMENTS$", tags |-> <<"science">>],
    [pattern |-> ":DATA$", tags |-> <<"science">>],
    [pattern |-> ":MAG$", tags |-> <<"vector", "math">>],
    [pattern |-> ":NORMALIZED$", tags |-> <<"vector", "math">>],
    [pattern |-> ":X$", tags |-> <<"vector", "position">>],
    [pattern |-> ":Y$", tags |-> <<"vector", "position">>],
    [pattern |-> ":Z$", tags |-> <<"vector", "position">>],
    [pattern |-> ":ROLL$", tags |-> <<"rotation", "direction">>],
    [pattern |-> ":PITCH$", tags |-> <<"rotation", "direction">>],
    [pattern |-> ":YAW$", tags |-> <<"rotation", "direction">>],
    [pattern |-> ":TARGET$", tags |-> <<"navigation">>],
    [pattern |-> ":HASTARGET$", tags |-> <<"navigation">>]
  >>

KEYWORD_TAG_HINTS ==
  <<
    [key |-> "THROTTLE", tags |-> <<"control", "core">>],
    [key |-> "STEERING", tags |-> <<"control", "navigation", "core">>],
    [key |-> "LOCK", tags |-> <<"binding", "core">>],
    [key |-> "UNLOCK", tags |-> <<"binding">>],
    [key |-> "SAS", tags |-> <<"control", "autopilot", "systems">>],
    [key |-> "RCS", tags |-> <<"control", "systems">>],
    [key |-> "GEAR", tags |-> <<"systems", "landing">>],
    [key |-> "LIGHTS", tags |-> <<"systems">>],
    [key |-> "BRAKES", tags |-> <<"systems", "landing">>],
    [key |-> "ABORT", tags |-> <<"systems", "staging">>],
    [key |-> "AG1", tags |-> <<"action", "systems">>],
    [key |-> "AG2", tags |-> <<"action", "systems">>],
    [key |-> "AG3", tags |-> <<"action", "systems">>],
    [key |-> "AG4", tags |-> <<"action", "systems">>],
    [key |-> "AG5", tags |-> <<"action", "systems">>],
    [key |-> "AG6", tags |-> <<"action", "systems">>],
    [key |-> "AG7", tags |-> <<"action", "systems">>],
    [key |-> "AG8", tags |-> <<"action", "systems">>],
    [key |-> "AG9", tags |-> <<"action", "systems">>],
    [key |-> "AG10", tags |-> <<"action", "systems">>],
    [key |-> "PROGRADE", tags |-> <<"direction", "navigation", "orbit">>],
    [key |-> "RETROGRADE", tags |-> <<"direction", "navigation", "orbit">>],
    [key |-> "NORMAL", tags |-> <<"direction", "navigation", "orbit">>],
    [key |-> "ANTINORMAL", tags |-> <<"direction", "navigation", "orbit">>],
    [key |-> "RADIAL", tags |-> <<"direction", "navigation", "orbit">>],
    [key |-> "ANTIRADIAL", tags |-> <<"direction", "navigation", "orbit">>],
    [key |-> "SRFPROGRADE", tags |-> <<"direction", "navigation", "flight">>],
    [key |-> "SRFRETROGRADE", tags |-> <<"direction", "navigation", "flight">>],
    [key |-> "TARGET", tags |-> <<"navigation">>],
    [key |-> "WAIT", tags |-> <<"time", "core">>],
    [key |-> "WHEN", tags |-> <<"trigger">>],
    [key |-> "ON", tags |-> <<"trigger">>],
    [key |-> "UNTIL", tags |-> <<"language", "core">>],
    [key |-> "IF", tags |-> <<"language", "core">>],
    [key |-> "ELSE", tags |-> <<"language", "core">>],
    [key |-> "FOR", tags |-> <<"language", "collection">>],
    [key |-> "FROM", tags |-> <<"language">>],
    [key |-> "SET", tags |-> <<"language", "core">>],
    [key |-> "PRINT", tags |-> <<"io", "core">>],
    [key |-> "LOG", tags |-> <<"io">>],
    [key |-> "RUN", tags |-> <<"language", "core">>],
    [key |-> "RUNPATH", tags |-> <<"language", "io">>],
    [key |-> "RUNONCEPATH", tags |-> <<"language", "io">>],
    [key |-> "STAGE", tags |-> <<"staging", "core">>],
    [key |-> "REBOOT", tags |-> <<"systems">>],
    [key |-> "SHUTDOWN", tags |-> <<"systems">>],
    [key |-> "ABS", tags |-> <<"math", "function">>],
    [key |-> "CEILING", tags |-> <<"math", "function">>],
    [key |-> "FLOOR", tags |-> <<"math", "function">>],
    [key |-> "ROUND", tags |-> <<"math", "function">>],
    [key |-> "SQRT", tags |-> <<"math", "function">>],
    [key |-> "LN", tags |-> <<"math", "function">>],
    [key |-> "LOG10", tags |-> <<"math", "function">>],
    [key |-> "MIN", tags |-> <<"math", "function">>],
    [key |-> "MAX", tags |-> <<"math", "function">>],
    [key |-> "MOD", tags |-> <<"math", "function">>],
    [key |-> "SIN", tags |-> <<"math", "function">>],
    [key |-> "COS", tags |-> <<"math", "function">>],
    [key |-> "TAN", tags |-> <<"math", "function">>],
    [key |-> "ARCSIN", tags |-> <<"math", "function">>],
    [key |-> "ARCCOS", tags |-> <<"math", "function">>],
    [key |-> "ARCTAN", tags |-> <<"math", "function">>],
    [key |-> "ARCTAN2", tags |-> <<"math", "function">>],
    [key |-> "RANDOM", tags |-> <<"math", "function">>],
    [key |-> "V", tags |-> <<"vector", "math", "function">>],
    [key |-> "R", tags |-> <<"direction", "rotation", "function">>],
    [key |-> "Q", tags |-> <<"rotation", "function">>],
    [key |-> "HEADING", tags |-> <<"direction", "navigation", "function">>],
    [key |-> "LOOKDIRUP", tags |-> <<"direction", "rotation", "function">>],
    [key |-> "ANGLEAXIS", tags |-> <<"rotation", "math", "function">>],
    [key |-> "ROTATEFROMTO", tags |-> <<"rotation", "math", "function">>],
    [key |-> "VCRS", tags |-> <<"vector", "math", "function">>],
    [key |-> "VDOT", tags |-> <<"vector", "math", "function">>],
    [key |-> "VANG", tags |-> <<"vector", "math", "function">>],
    [key |-> "VXCL", tags |-> <<"vector", "math", "function">>]
  >>

RETURN_TYPE_TAGS ==
  <<
    [key |-> "vector", tags |-> <<"vector">>],
    [key |-> "direction", tags |-> <<"direction">>],
    [key |-> "scalar", tags |-> <<"numeric">>],
    [key |-> "number", tags |-> <<"numeric">>],
    [key |-> "boolean", tags |-> <<"boolean">>],
    [key |-> "bool", tags |-> <<"boolean">>],
    [key |-> "string", tags |-> <<"string">>],
    [key |-> "list", tags |-> <<"collection">>],
    [key |-> "lexicon", tags |-> <<"collection">>],
    [key |-> "iterator", tags |-> <<"collection">>],
    [key |-> "timespan", tags |-> <<"time">>],
    [key |-> "timestamp", tags |-> <<"time">>],
    [key |-> "geoposition", tags |-> <<"position", "navigation">>],
    [key |-> "vessel", tags |-> <<"vessel">>],
    [key |-> "body", tags |-> <<"body">>],
    [key |-> "orbit", tags |-> <<"orbit">>],
    [key |-> "part", tags |-> <<"part">>]
  >>

STRUCTURE_CATEGORIES ==
  <<
    [key |-> "VESSEL", category |-> "Vessel Properties"],
    [key |-> "SHIP", category |-> "Vessel Properties"],
    [key |-> "ORBITABLE", category |-> "Vessel Properties"],
    [key |-> "VESSELALT", category |-> "Vessel Properties"],
    [key |-> "BOUNDS", category |-> "Vessel Properties"],
    [key |-> "CREWMEMBER", category |-> "Vessel Properties"],
    [key |-> "ORBIT", category |-> "Orbital Mechanics"],
    [key |-> "ORBITETA", category |-> "Orbital Mechanics"],
    [key |-> "ORBITINFO", category |-> "Orbital Mechanics"],
    [key |-> "BODY", category |-> "Celestial Bodies"],
    [key |-> "ATMOSPHERE", category |-> "Celestial Bodies"],
    [key |-> "GEOPOSITION", category |-> "Celestial Bodies"],
    [key |-> "LATLNG", category |-> "Celestial Bodies"],
    [key |-> "WAYPOINT", category |-> "Celestial Bodies"],
    [key |-> "PART", category |-> "Parts & Modules"],
    [key |-> "PARTMODULE", category |-> "Parts & Modules"],
    [key |-> "ENGINE", category |-> "Parts & Modules"],
    [key |-> "GIMBAL", category |-> "Parts & Modules"],
    [key |-> "DECOUPLER", category |-> "Parts & Modules"],
    [key |-> "SEPARATOR", category |-> "Parts & Modules"],
    [key |-> "DOCKINGPORT", category |-> "Parts & Modules"],
    [key |-> "SENSOR", category |-> "Parts & Modules"],
    [key |-> "LAUNCHCLAMP", category |-> "Parts & Modules"],
    [key |-> "RCS", category |-> "Parts & Modules"],
    [key |-> "SOLARPANEL", category |-> "Parts & Modules"],
    [key |-> "CONSUMEDRESOURCE", category |-> "Parts & Modules"],
    [key |-> "RESOURCE", category |-> "Resources"],
    [key |-> "AGGREGATERESOURCE", category |-> "Resources"],
    [key |-> "STAGEVALUES", category |-> "Resources"],
    [key |-> "CONTROL", category |-> "Flight Control"],
    [key |-> "STEERINGMANAGER", category |-> "Flight Control"],
    [key |-> "PIDLOOP", category |-> "Flight Control"],
    [key |-> "MANEUVERNODE", category |-> "Maneuvers & Navigation"],
    [key |-> "NODE", category |-> "Maneuvers & Navigation"],
    [key |-> "DIRECTION", category |-> "Maneuvers & Navigation"],
    [key |-> "HEADING", category |-> "Maneuvers & Navigation"],
    [key |-> "VECTOR", category |-> "Math & Vectors"],
    [key |-> "SCALAR", category |-> "Math & Vectors"],
    [key |-> "CONSTANT", category |-> "Math & Vectors"],
    [key |-> "LIST", category |-> "Collections"],
    [key |-> "LEXICON", category |-> "Collections"],
    [key |-> "ITERATOR", category |-> "Collections"],
    [key |-> "RANGE", category |-> "Collections"],
    [key |-> "QUEUE", category |-> "Collections"],
    [key |-> "STACK", category |-> "Collections"],
    [key |-> "UNIQUESET", category |-> "Collections"],
    [key |-> "FILE", category |-> "I/O & Communication"],
    [key |-> "VOLUME", category |-> "I/O & Communication"],
    [key |-> "VOLUMEFILE", category |-> "I/O & Communication"],
    [key |-> "VOLUMEDIRECTORY", category |-> "I/O & Communication"],
    [key |-> "VOLUMEITEM", category |-> "I/O & Communication"],
    [key |-> "CORE", category |-> "I/O & Communication"],
    [key |-> "PROCESSOR", category |-> "I/O & Communication"],
    [key |-> "CONNECTION", category |-> "I/O & Communication"],
    [key |-> "MESSAGE", category |-> "I/O & Communication"],
    [key |-> "MESSAGEQUEUE", category |-> "I/O & Communication"],
    [key |-> "GUI", category |-> "GUI Elements"],
    [key |-> "WIDGET", category |-> "GUI Elements"],
    [key |-> "BOX", category |-> "GUI Elements"],
    [key |-> "BUTTON", category |-> "GUI Elements"],
    [key |-> "LABEL", category |-> "GUI Elements"],
    [key |-> "TEXTFIELD", category |-> "GUI Elements"],
    [key |-> "POPUPMENU", category |-> "GUI Elements"],
    [key |-> "SLIDER", category |-> "GUI Elements"],
    [key |-> "SCROLLBOX", category |-> "GUI Elements"],
    [key |-> "SPACING", category |-> "GUI Elements"],
    [key |-> "SKIN", category |-> "GUI Elements"],
    [key |-> "STYLE", category |-> "GUI Elements"],
    [key |-> "STYLESTATE", category |-> "GUI Elements"],
    [key |-> "STYLERECTSTYLE", category |-> "GUI Elements"],
    [key |-> "TIPDISPLAY", category |-> "GUI Elements"],
    [key |-> "TIME", category |-> "Time"],
    [key |-> "TIMESPAN", category |-> "Time"],
    [key |-> "TIMESTAMP", category |-> "Time"],
    [key |-> "KUNIVERSE", category |-> "Time"],
    [key |-> "SCIENCEDATA", category |-> "Science"],
    [key |-> "SCIENCEEXPERIMENT", category |-> "Science"],
    [key |-> "SCIENCEEXPERIMENTMODULE", category |-> "Science"],
    [key |-> "CAREER", category |-> "Career"],
    [key |-> "CONTRACT", category |-> "Career"],
    [key |-> "CONTRACTPARAMETER", category |-> "Career"],
    [key |-> "NOTE", category |-> "Career"],
    [key |-> "RGBA", category |-> "Colors & Styling"],
    [key |-> "HSVA", category |-> "Colors & Styling"],
    [key |-> "HIGHLIGHT", category |-> "Colors & Styling"],
    [key |-> "VECDRAW", category |-> "Colors & Styling"],
    [key |-> "VECDRAWARGS", category |-> "Colors & Styling"],
    [key |-> "ADDON", category |-> "Addons"],
    [key |-> "ADDONLIST", category |-> "Addons"]
  >>

COMMON_ENTRIES ==
  {
    "THROTTLE", "STEERING", "LOCK", "UNLOCK",
    "STAGE", "SAS", "RCS", "GEAR",
    "BRAKES", "LIGHTS", "PROGRADE", "RETROGRADE",
    "NORMAL", "ANTINORMAL", "RADIAL", "ANTIRADIAL",
    "SRFPROGRADE", "SRFRETROGRADE", "UP", "NORTH",
    "VESSEL:ALTITUDE", "VESSEL:APOAPSIS", "VESSEL:PERIAPSIS", "VESSEL:VELOCITY",
    "VESSEL:FACING", "VESSEL:MASS", "VESSEL:THRUST", "VESSEL:MAXTHRUST",
    "VESSEL:ORBIT", "VESSEL:BODY", "VESSEL:STATUS", "VESSEL:PARTS",
    "VESSEL:ENGINES", "SHIP", "SHIP:ALTITUDE", "ALTITUDE",
    "APOAPSIS", "PERIAPSIS", "VELOCITY", "ORBIT:APOAPSIS",
    "ORBIT:PERIAPSIS", "ORBIT:ECCENTRICITY", "ORBIT:INCLINATION", "ORBIT:PERIOD",
    "ORBIT:SEMIMAJORAXIS", "ORBIT:ETA", "ORBIT:BODY", "BODY:NAME",
    "BODY:MASS", "BODY:RADIUS", "BODY:MU", "BODY:ATM",
    "BODY:ATMOSPHERE", "ETA:APOAPSIS", "ETA:PERIAPSIS", "ETA:TRANSITION",
    "MANEUVERNODE", "NODE", "NEXTNODE", "HASNODE",
    "ADD", "REMOVE", "ABS", "MIN",
    "MAX", "SQRT", "ROUND", "FLOOR",
    "CEILING", "MOD", "SIN", "COS",
    "TAN", "ARCSIN", "ARCCOS", "ARCTAN",
    "ARCTAN2", "V", "R", "Q",
    "HEADING", "LOOKDIRUP", "VCRS", "VDOT",
    "VANG", "VXCL", "VECTOR:MAG", "VECTOR:NORMALIZED",
    "VECTOR:X", "VECTOR:Y", "VECTOR:Z", "TIME",
    "TIME:SECONDS", "WAIT", "WARP", "KUNIVERSE",
    "IF", "ELSE", "UNTIL", "FOR",
    "WHEN", "ON", "RETURN", "BREAK",
    "PRESERVE", "PRINT", "LOG", "CLEARSCREEN",
    "RUN", "RUNPATH", "LIST", "LIST:ADD",
    "LIST:REMOVE", "LIST:LENGTH", "LIST:CLEAR", "TARGET",
    "HASTARGET", "PART:NAME", "PART:MASS", "PART:MODULES",
    "PART:TAG", "PART:STAGE", "PARTSTAGGED", "PARTSNAMED",
    "PARTSDUBBED", "PARTSINGROUP", "ENGINE:THRUST", "ENGINE:MAXTHRUST",
    "ENGINE:ISP", "ENGINE:ACTIVATE", "ENGINE:SHUTDOWN", "RESOURCE:AMOUNT",
    "RESOURCE:CAPACITY", "STAGE:LIQUIDFUEL", "STAGE:OXIDIZER", "STAGE:MONOPROPELLANT",
    "STAGE:ELECTRICCHARGE", "AG1", "AG2", "AG3",
    "AG4", "AG5", "AG6", "AG7",
    "AG8", "AG9", "AG10", "ABORT"
  }

RARE_ENTRIES ==
  {
    "SURFACESPEED", "VERTICALSPEED", "TERMVELOCITY", "STYLESTATE",
    "STYLERECTSTYLE", "STYLERECTOFFSET", "TIPDISPLAY", "SKIN:ADD",
    "ADDON:AGX", "ADDON:IR", "ADDON:KAC", "ADDON:RT",
    "ADDON:SCANSAT", "PROCESSOR:MODE", "PROCESSOR:BOOTFILENAME", "CONSTANT:AVOGADRO",
    "CONSTANT:BOLTZMANN", "CONSTANT:IDEALGAS", "VOLUME:FREESPACE", "VOLUME:POWERREQUIREMENT",
    "VOLUME:FILES", "VOLUMEFILE:WRITE", "VOLUMEFILE:WRITELN", "VOLUMEFILE:READALL",
    "MESSAGE:SENT", "MESSAGE:RECEIVEDAT", "MESSAGE:SENDER", "MESSAGEQUEUE:EMPTY",
    "MESSAGEQUEUE:LENGTH", "CAREER:CANTRACKOBJECTS", "CAREER:PATCHLIMIT", "CONTRACT:STATE",
    "CONTRACT:DEADLINE", "HIGHLIGHT:ENABLED", "HIGHLIGHT:COLOR"
  }

ESSENTIAL_ENTRIES ==
  <<
    [id |-> "RETROGRADE",
     type |-> "constant",
     return_type |-> "Direction",
     access |-> "get",
     signature |-> None,
     description |-> "A direction pointing opposite to the vessel's orbital velocity. Used for deceleration burns.",
     snippet |-> "LOCK STEERING TO RETROGRADE.",
     tags |-> <<"constant", "direction", "navigation", "orbit">>,
     related |-> <<"PROGRADE", "NORMAL", "RADIAL">>],
    [id |-> "ANTINORMAL",
     type |-> "constant",
     return_type |-> "Direction",
     access |-> "get",
     signature |-> None,
     description |-> "A direction pointing opposite to normal, perpendicular to the orbit plane.",
     snippet |-> None,
     tags |-> <<"constant", "direction", "navigation", "orbit">>,
     related |-> <<"NORMAL", "PROGRADE", "RETROGRADE">>],
    [id |-> "RADIAL",
     type |-> "constant",
     return_type |-> "Direction",
     access |-> "get",
     signature |-> None,
     description |-> "A direction pointing away from the body being orbited (radially outward).",
     snippet |-> None,
     tags |-> <<"constant", "direction", "navigation", "orbit">>,
     related |-> <<"ANTIRADIAL", "PROGRADE", "NORMAL">>],
    [id |-> "ANTIRADIAL",
     type |-> "constant",
     return_type |-> "Direction",
     access |-> "get",
     signature |-> None,
     description |-> "A direction pointing toward the body being orbited (radially inward).",
     snippet |-> None,
     tags |-> <<"constant", "direction", "navigation", "orbit">>,
     related |-> <<"RADIAL", "PROGRADE", "NORMAL">>],
    [id |-> "SRFPROGRADE",
     type |-> "constant",
     return_type |-> "Direction",
     access |-> "get",
     signature |-> None,
     description |-> "Surface prograde - the direction of travel relative to the surface.",
     snippet |-> None,
     tags |-> <<"constant", "direction", "navigation", "flight">>,
     related |-> <<"SRFRETROGRADE", "PROGRADE">>],
    [id |-> "SRFRETROGRADE",
     type |-> "constant",
     return_type |-> "Direction",
     access |-> "get",
     signature |-> None,
     description |-> "Surface retrograde - opposite to the direction of travel relative to the surface.",
     snippet |-> None,
     tags |-> <<"constant", "direction", "navigation", "flight">>,
     related |-> <<"SRFPROGRADE", "RETROGRADE">>],
    [id |-> "VECTOR",
     type |-> "structure",
     return_type |-> None,
     access |-> None,
     signature |-> None,
     description |-> "A 3D vector with X, Y, Z components. Used for positions, velocities, and directions. Create with V(x,y,z) function.",
     snippet |-> "SET myVec TO V(1, 2, 3).\nPRINT myVec:MAG. // magnitude",
     tags |-> <<"math", "vector", "core">>,
     related |-> <<"DIRECTION", "FUNCTION:V">>],
    [id |-> "THROTTLE",
     type |-> "keyword",
     return_type |-> "Scalar",
     access |-> None,
     signature |-> "LOCK THROTTLE TO value.",
     description |-> "A special variable that controls the vessel's throttle. Lock it to a value between 0.0 (no thrust) and 1.0 (full thrust).",
     snippet |-> "LOCK THROTTLE TO 1.0.\nWAIT UNTIL SHIP:APOAPSIS > 80000.\nLOCK THROTTLE TO 0.",
     tags |-> <<"control", "flight", "keyword">>,
     related |-> <<"LOCK", "STEERING">>],
    [id |-> "STEERING",
     type |-> "keyword",
     return_type |-> "Direction",
     access |-> None,
     signature |-> "LOCK STEERING TO direction.",
     description |-> "A special variable that controls the vessel's attitude. Lock it to a direction to have the autopilot point the ship.",
     snippet |-> "LOCK STEERING TO PROGRADE.\nWAIT 5.\nLOCK STEERING TO HEADING(90, 45).",
     tags |-> <<"control", "navigation", "flight", "keyword">>,
     related |-> <<"LOCK", "THROTTLE", "PROGRADE">>]
  >>

\* config.BASE_URL, the fallback source of injected entries.
BASE_URL == "https://ksp-kos.github.io/KOS/"

\* The complementary pairs of build_related_links.
complementary_pairs ==
  <<
    <<"PROGRADE", "RETROGRADE">>,
    <<"NORMAL", "ANTINORMAL">>,
    <<"RADIAL", "ANTIRADIAL">>,
    <<"LOCK", "UNLOCK">>,
    <<"APOAPSIS", "PERIAPSIS">>,
    <<"ETA:APOAPSIS", "ETA:PERIAPSIS">>
  >>

\* The keyword groups of get_tags_from_description.
description_hints ==
  <<
    [tag |-> "orbit", keywords |-> <<"orbit", "orbital", "apoapsis", "periapsis", "inclination">>],
    [tag |-> "maneuver", keywords |-> <<"maneuver", "burn", "delta-v", "deltav">>],
    [tag |-> "velocity", keywords |-> <<"velocity", "speed">>],
    [tag |-> "position", keywords |-> <<"position", "coordinate", "location">>],
    [tag |-> "autopilot", keywords |-> <<"autopilot", "auto-pilot", "cooked control">>],
    [tag |-> "trajectory", keywords |-> <<"trajectory", "path", "prediction">>],
    [tag |-> "atmosphere", keywords |-> <<"atmosphere", "atmospheric", "air">>],
    [tag |-> "docking", keywords |-> <<"dock", "docking", "port">>],
    [tag |-> "landing", keywords |-> <<"land", "landing", "touchdown", "gear">>],
    [tag |-> "staging", keywords |-> <<"stage", "staging", "decouple", "separate">>]
  >>

\* The type-based tags of assign_tags_to_entry.
type_tags ==
  <<
    [key |-> "structure", tags |-> <<"structure">>],
    [key |-> "suffix", tags |-> <<>>],
    [key |-> "function", tags |-> <<"function">>],
    [key |-> "keyword", tags |-> <<"keyword">>],
    [key |-> "constant", tags |-> <<"constant">>],
    [key |-> "command", tags |-> <<"command">>]
  >>

(* ------------------------------ the entry ------------------------------ *)

\* DocEntryType, by value.
DocEntryType == {"structure", "suffix", "function", "keyword", "constant", "command"}

\* A DocEntry as its constructor leaves it. category and usage_frequency are
\* the attributes the classifiers set later.  tags_shared (related_shared)
\* says that the entry's tags (related) list is the very list object of its
\* ESSENTIAL_ENTRIES row, so that an in-place append changes both.
DocEntry(id, name, type) ==
  [id |-> id, name |-> name, type |-> type,
   parent_structure |-> None, return_type |-> None, access |-> None,
   signature |-> None, description |-> None, snippet |-> None,
   source_ref |-> None, tags |-> <<>>, aliases |-> <<>>, related |-> <<>>,
   deprecated |-> FALSE, deprecation_note |-> None,
   category |-> None, usage_frequency |-> None,
   tags_shared |-> FALSE, related_shared |-> FALSE]

\* {e.id for e in entries}
ids_of(entries) == {entries[i].id : i \in 1..Len(entries)}

(* ----------------------- Essential-Entry Injector ---------------------- *)

\* The tags and related list objects of the ESSENTIAL_ENTRIES rows, as the
\* module is imported.
essential_lists_initial ==
  [k \in 1..Len(ESSENTIAL_ENTRIES) |->
     [tags |-> ESSENTIAL_ENTRIES[k].tags, related |-> ESSENTIAL_ENTRIES[k].related]]

\* The DocEntry built from row k of the table; its lists are the row's own.
essential_entry(k, lists, base_url) ==
  LET row == ESSENTIAL_ENTRIES[k]
  IN [DocEntry(row.id, row.id, row.type) EXCEPT
        !.return_type = row.return_type,
        !.access = row.access,
        !.signature = row.signature,
        !.description = row.description,
        !.snippet = row.snippet,
        !.source_ref = base_url,
        !.tags = lists[k].tags,
        !.related = lists[k].related,
        !.tags_shared = TRUE,
        !.related_shared = TRUE]

RECURSIVE essential_loop(_, _, _, _, _)
essential_loop(entries, existing_ids, k, lists, base_url) ==
  IF k > Len(ESSENTIAL_ENTRIES) THEN entries
  ELSE IF ESSENTIAL_ENTRIES[k].id \notin existing_ids
       THEN essential_loop(Append(entries, essential_entry(k, lists, base_url)),
                           existing_ids, k + 1, lists, base_url)
       ELSE essential_loop(entries, existing_ids, k + 1, lists, base_url)

\* A variant without the test on existing_ids: it appends an entry for every
\* row of the table.
add_essential_entries_unguarded(entries, lists, base_url) ==
  entries \o [k \in 1..Len(ESSENTIAL_ENTRIES) |-> essential_entry(k, lists, base_url)]

add_essential_entries(entries, lists, base_url) ==
  essential_loop(entries, ids_of(entries), 1, lists, base_url)

\* The table's list objects after a stage left the collection as `entries`:
\* a list shared with an entry holds what the entry holds.
lists_after(lists, entries) ==
  [k \in DOMAIN lists |->
     LET id == ESSENTIAL_ENTRIES[k].id
         ht == {i \in 1..Len(entries) : entries[i].id = id /\ entries[i].tags_shared}
         hr == {i \in 1..Len(entries) : entries[i].id = id /\ entries[i].related_shared}
     IN [tags |-> IF ht = {} THEN lists[k].tags ELSE entries[CHOOSE i \in ht : TRUE].tags,
         related |-> IF hr = {} THEN lists[k].related
                     ELSE entries[CHOOSE i \in hr : TRUE].related]]

(* ----------------------------- Deduplicator ---------------------------- *)

_entry_quality_score_uncapped(entry) ==
  (IF Truthy(entry.description) THEN Len(entry.description) ELSE 0)
  + (IF Truthy(entry.snippet) THEN 50 ELSE 0)
  + (IF entry.tags # <<>> THEN Len(entry.tags) * 5 ELSE 0)
  + (IF entry.related # <<>> THEN Len(entry.related) * 3 ELSE 0)
  + (IF Truthy(entry.source_ref) /\ contains(entry.source_ref, "#") THEN 10 ELSE 0)

_entry_quality_score(entry) ==
  (IF Truthy(entry.description) THEN min(Len(entry.description), 200) ELSE 0)
  + (IF Truthy(entry.snippet) THEN 50 ELSE 0)
  + (IF entry.tags # <<>> THEN Len(entry.tags) * 5 ELSE 0)
  + (IF entry.related # <<>> THEN Len(entry.related) * 3 ELSE 0)
  + (IF Truthy(entry.source_ref) /\ contains(entry.source_ref, "#") THEN 10 ELSE 0)

\* for x in source: if x not in target: target.append(x)
RECURSIVE append_missing(_, _)
append_missing(target, source) ==
  IF source = <<>> THEN target
  ELSE append_missing(IF Head(source) \in set_of(target) THEN target
                      ELSE Append(target, Head(source)),
                      Tail(source))

\* A variant that lets the source's snippet and description overwrite the
\* target's.
_merge_entry_fields_overwriting(target, source) ==
  [target EXCEPT
     !.snippet = IF Truthy(source.snippet) THEN source.snippet ELSE @,
     !.description = IF Truthy(source.description) THEN source.description ELSE @,
     !.tags = append_missing(@, source.tags),
     !.related = append_missing(@, source.related)]

_merge_entry_fields(target, source) ==
  [target EXCEPT
     !.snippet = IF ~Truthy(target.snippet) /\ Truthy(source.snippet)
                 THEN source.snippet ELSE @,
     !.description = IF ~Truthy(target.description) /\ Truthy(source.description)
                     THEN source.description ELSE @,
     !.tags = append_missing(@, source.tags),
     !.related = append_missing(@, source.related)]

\* A variant whose replace path stores the better entry under a new key.
dedup_step_appending(entry_map, entry) ==
  LET at == {i \in 1..Len(entry_map) : entry_map[i].id = entry.id}
  IN IF at = {} THEN Append(entry_map, entry)
     ELSE LET i == CHOOSE j \in at : TRUE
              existing == entry_map[i]
          IN IF _entry_quality_score(entry) > _entry_quality_score(existing)
             THEN Append(entry_map, entry)
             ELSE [entry_map EXCEPT ![i] = _merge_entry_fields(existing, entry)]

\* A variant whose comparison of the two scores is reversed.
dedup_step_replacing_on_lower(entry_map, entry) ==
  LET at == {i \in 1..Len(entry_map) : entry_map[i].id = entry.id}
  IN IF at = {} THEN Append(entry_map, entry)
     ELSE LET i == CHOOSE j \in at : TRUE
              existing == entry_map[i]
          IN IF _entry_quality_score(entry) < _entry_quality_score(existing)
             THEN [entry_map EXCEPT ![i] = entry]
             ELSE [entry_map EXCEPT ![i] = _merge_entry_fields(existing, entry)]

\* A variant that also replaces the kept entry on an equal score.
dedup_step_replacing_on_tie(entry_map, entry) ==
  LET at == {i \in 1..Len(entry_map) : entry_map[i].id = entry.id}
  IN IF at = {} THEN Append(entry_map, entry)
     ELSE LET i == CHOOSE j \in at : TRUE
              existing == entry_map[i]
          IN IF _entry_quality_score(entry) >= _entry_quality_score(existing)
             THEN [entry_map EXCEPT ![i] = entry]
             ELSE [entry_map EXCEPT ![i] = _merge_entry_fields(existing, entry)]

\* One iteration of the loop of deduplicate_entries; entry_map is the dict,
\* as the list of its values in insertion order.
dedup_step(entry_map, entry) ==
  LET at == {i \in 1..Len(entry_map) : entry_map[i].id = entry.id}
  IN IF at = {} THEN Append(entry_map, entry)
     ELSE LET i == CHOOSE j \in at : TRUE
              existing == entry_map[i]
          IN IF _entry_quality_score(entry) > _entry_quality_score(existing)
             THEN [entry_map EXCEPT ![i] = entry]
             ELSE [entry_map EXCEPT ![i] = _merge_entry_fields(existing, entry)]

RECURSIVE dedup_loop(_, _)
dedup_loop(entry_map, entries) ==
  IF entries = <<>> THEN entry_map
  ELSE dedup_loop(dedup_step(entry_map, Head(entries)), Tail(entries))

\* A variant that returns the kept entries newest first.
deduplicate_entries_reversed(entries) ==
  LET kept == dedup_loop(<<>>, entries)
  IN [i \in 1..Len(kept) |-> kept[Len(kept) + 1 - i]]

deduplicate_entries(entries) == dedup_loop(<<>>, entries)

(* ---------------------------- Cross-Referencer ------------------------- *)

\* entry_by_id[id] of the dict comprehension {e.id: e for e in entries}: the
\* last entry of the list with that id.
entry_by_id(entries, id) ==
  LET at == {i \in 1..Len(entries) : entries[i].id = id}
  IN entries[CHOOSE i \in at : \A j \in at : j <= i]

\* Whether position p of s (between s[p-1] and s[p]) is a word boundary \b.
word_boundary(s, p) ==
  LET before_is_word == p > 1 /\ IsWordChar(Char(s, p - 1))
      after_is_word == p <= Len(s) /\ IsWordChar(Char(s, p))
  IN before_is_word # after_is_word

\* re.search(r"\b" + re.escape(word) + r"\b", s)
re_search_word(word, s) ==
  \E i \in Occurrences(s, word) :
     word_boundary(s, i) /\ word_boundary(s, i + Len(word))

\* A variant of the loop that adds every suffix of the structure.
link_suffixes_unlimited(related_ids, entry, entries, j) ==
  related_ids \cup {entries[k].id : k \in {k \in j..Len(entries) :
                      entries[k].parent_structure = entry.id /\ entries[k].id # entry.id}}

\* The loop over `entries` that links a structure to its suffixes.
RECURSIVE link_suffixes(_, _, _, _)
link_suffixes(related_ids, entry, entries, j) ==
  IF j > Len(entries) THEN related_ids
  ELSE LET other == entries[j]
           present == {r \in related_ids : startswith(r, entry.id \o ":")}
       IN link_suffixes(
            IF other.parent_structure = entry.id /\ other.id # entry.id
               /\ Cardinality(present) < 5
            THEN related_ids \cup {other.id} ELSE related_ids,
            entry, entries, j + 1)

\* The loop over complementary_pairs.
RECURSIVE link_pairs(_, _, _, _)
link_pairs(related_ids, entry, ids, k) ==
  IF k > Len(complementary_pairs) THEN related_ids
  ELSE LET pair == complementary_pairs[k]
       IN link_pairs(
            IF entry.id = pair[1] /\ pair[2] \in ids THEN related_ids \cup {pair[2]}
            ELSE IF entry.id = pair[2] /\ pair[1] \in ids THEN related_ids \cup {pair[1]}
            ELSE related_ids,
            entry, ids, k + 1)

\* A variant of the description scan without the skip of the entry's own id.
mentioned_ids_unskipped(entry, entries) ==
  IF Truthy(entry.description)
  THEN LET desc_upper == upper(entry.description)
           desc_chars == chars_of(desc_upper)
       IN {other_id \in ids_of(entries) :
             LET name_upper == upper(entry_by_id(entries, other_id).name)
             IN contains_chars(desc_chars, desc_upper, name_upper)
                /\ re_search_word(name_upper, desc_upper)}
  ELSE {}

\* The ids of the entries whose name the description mentions as a word.
mentioned_ids(entry, entries) ==
  IF Truthy(entry.description)
  THEN LET desc_upper == upper(entry.description)
           desc_chars == chars_of(desc_upper)
       IN {other_id \in ids_of(entries) \ {entry.id} :
             LET name_upper == upper(entry_by_id(entries, other_id).name)
             IN contains_chars(desc_chars, desc_upper, name_upper)
                /\ re_search_word(name_upper, desc_upper)}
  ELSE {}

\* related_ids of one entry, as it stands before the truncation.
related_ids_of(entry, entries) ==
  LET ids == ids_of(entries)
      carried == set_of(entry.related)
      with_parent == IF Truthy(entry.parent_structure) /\ entry.parent_structure \in ids
                     THEN carried \cup {entry.parent_structure} ELSE carried
      with_suffixes == IF entry.type = "structure"
                       THEN link_suffixes(with_parent, entry, entries, 1)
                       ELSE with_parent
      with_pairs == link_pairs(with_suffixes, entry, ids, 1)
  IN with_pairs \cup mentioned_ids(entry, entries)

\* A variant without the slice.
truncate_related_unbounded(seq) == seq

\* list(related_ids)[:10]
truncate_related(seq) == SubSeq(seq, 1, min(Len(seq), 10))

\* build_related_links: every entry's related list is rebound to a new list.
build_related_links(entries, seed) ==
  [i \in 1..Len(entries) |->
     [entries[i] EXCEPT
        !.related = truncate_related(list_of_set(related_ids_of(entries[i], entries), seed)),
        !.related_shared = FALSE]]

(* ------------------------- infer_additional_tags ----------------------- *)

\* tags_to_add of one entry, read from the list as the loop has left it.
tags_to_add(entry, entries) ==
  LET at == {i \in 1..Len(entries) : entries[i].id = entry.parent_structure}
      from_parent ==
        IF Truthy(entry.parent_structure) /\ at # {}
        THEN set_of(entries[CHOOSE i \in at : \A j \in at : i <= j].tags) \ {"core"}
        ELSE {}
      type_lower == lower(entry.return_type)
      from_type ==
        IF Truthy(entry.return_type)
        THEN (IF contains(type_lower, "vector") THEN {"vector"} ELSE {})
             \cup (IF contains(type_lower, "direction") THEN {"direction"} ELSE {})
             \cup (IF contains(type_lower, "scalar") \/ contains(type_lower, "number")
                   THEN {"numeric"} ELSE {})
             \cup (IF contains(type_lower, "list") THEN {"collection"} ELSE {})
             \cup (IF contains(type_lower, "boolean") \/ contains(type_lower, "bool")
                   THEN {"boolean"} ELSE {})
        ELSE {}
  IN from_parent \cup from_type

\* The loop of infer_additional_tags: entry i is appended to in place, so a
\* later entry reads the tags its parent has by then.
RECURSIVE infer_loop(_, _, _)
infer_loop(entries, i, seed) ==
  IF i > Len(entries) THEN entries
  ELSE LET add == list_of_set(tags_to_add(entries[i], entries), seed)
       IN infer_loop([entries EXCEPT ![i].tags = append_missing(@, add)], i + 1, seed)

infer_additional_tags(entries, seed) == infer_loop(entries, 1, seed)

(* ------------------------------ Tag Engine ----------------------------- *)

\* re.search(pattern, s) for the three shapes of pattern TAG_PATTERNS holds:
\* ^LIT(:|$), ^LIT and LIT$ ($ also matches before a final newline).
re_search(pattern, s) ==
  IF startswith(pattern, "^") /\ endswith(pattern, "(:|$)")
  THEN LET lit == SubSeq(pattern, 2, Len(pattern) - 5)
           rest == SubSeq(s, Len(lit) + 1, Len(s))
       IN startswith(s, lit) /\ (rest = "" \/ rest = "\n" \/ startswith(rest, ":"))
  ELSE IF startswith(pattern, "^")
  THEN startswith(s, Tail(pattern))
  ELSE LET lit == SubSeq(pattern, 1, Len(pattern) - 1)
       IN \E i \in Occurrences(s, lit) :
             i + Len(lit) = Len(s) + 1
             \/ (i + Len(lit) = Len(s) /\ Char(s, Len(s)) = "\n")

\* A variant that stops at the first pattern that matches.
get_tags_from_patterns_first_match(entry_id) ==
  LET entry_upper == upper(entry_id)
      hits == {j \in 1..Len(TAG_PATTERNS) : re_search(TAG_PATTERNS[j].pattern, entry_upper)}
  IN IF hits = {} THEN {}
     ELSE set_of(TAG_PATTERNS[CHOOSE j \in hits : \A k \in hits : j <= k].tags)

get_tags_from_patterns(entry_id) ==
  LET entry_upper == upper(entry_id)
  IN UNION {set_of(TAG_PATTERNS[k].tags) :
              k \in {j \in 1..Len(TAG_PATTERNS) : re_search(TAG_PATTERNS[j].pattern, entry_upper)}}

get_tags_from_keyword(name) ==
  LET name_upper == upper(name)
  IN UNION {set_of(KEYWORD_TAG_HINTS[k].tags) :
              k \in {j \in 1..Len(KEYWORD_TAG_HINTS) : KEYWORD_TAG_HINTS[j].key = name_upper}}

get_tags_from_return_type(return_type) ==
  IF ~Truthy(return_type) THEN {}
  ELSE LET type_lower == lower(return_type)
       IN UNION {set_of(RETURN_TYPE_TAGS[k].tags) :
                   k \in {j \in 1..Len(RETURN_TYPE_TAGS) :
                            contains(type_lower, RETURN_TYPE_TAGS[j].key)}}

get_tags_from_description(description) ==
  IF ~Truthy(description) THEN {}
  ELSE LET desc_lower == lower(description)
           desc_chars == chars_of(desc_lower)
       IN {description_hints[k].tag :
             k \in {j \in 1..Len(description_hints) :
                      \E w \in set_of(description_hints[j].keywords) :
                         contains_chars(desc_chars, desc_lower, w)}}

\* The tags of an entry's type.
tags_of_type(type) ==
  UNION {set_of(type_tags[k].tags) : k \in {j \in 1..Len(type_tags) : type_tags[j].key = type}}

\* A variant that starts from the empty set instead of the entry's tags.
collected_tags_from_rules_only(entry) ==
  get_tags_from_patterns(entry.id)
  \cup get_tags_from_keyword(entry.name)
  \cup get_tags_from_return_type(entry.return_type)
  \cup get_tags_from_description(entry.description)
  \cup tags_of_type(entry.type)
  \cup (IF entry.deprecated THEN {"deprecated"} ELSE {})

\* The set `tags` of assign_tags_to_entry before the minimum-count fallback.
collected_tags(entry) ==
  set_of(entry.tags)
  \cup get_tags_from_patterns(entry.id)
  \cup get_tags_from_keyword(entry.name)
  \cup get_tags_from_return_type(entry.return_type)
  \cup get_tags_from_description(entry.description)
  \cup tags_of_type(entry.type)
  \cup (IF entry.deprecated THEN {"deprecated"} ELSE {})

\* The fallback of assign_tags_to_entry for a set of fewer than 2 tags.
with_fallback_tags(tags, entry) ==
  IF Cardinality(tags) < 2
  THEN LET with_parent == IF Truthy(entry.parent_structure)
                          THEN tags \cup get_tags_from_patterns(entry.parent_structure)
                          ELSE tags
       IN IF Cardinality(with_parent) < 2 THEN with_parent \cup {"misc"} ELSE with_parent
  ELSE tags

assign_tags_to_entry(entry) == sorted(with_fallback_tags(collected_tags(entry), entry))

\* assign_domain_tags: every entry's tags are rebound to the new list.
assign_domain_tags(entries) ==
  [i \in 1..Len(entries) |->
     [entries[i] EXCEPT !.tags = assign_tags_to_entry(entries[i]), !.tags_shared = FALSE]]

(* ------------------------- Category Classifier ------------------------- *)

\* TYPE_CATEGORIES
TYPE_CATEGORIES ==
  <<
    [key |-> "function", category |-> "Built-in Functions"],
    [key |-> "keyword", category |-> "Language Keywords"],
    [key |-> "command", category |-> "Commands"],
    [key |-> "constant", category |-> "Constants"]
  >>

\* STRUCTURE_CATEGORIES[key], or None when the key is absent.
structure_category(key) ==
  LET at == {k \in 1..Len(STRUCTURE_CATEGORIES) : STRUCTURE_CATEGORIES[k].key = key}
  IN IF at = {} THEN None ELSE STRUCTURE_CATEGORIES[CHOOSE k \in at : TRUE].category

\* s.split(":")[0]
first_segment(s) ==
  LET colons == Occurrences(s, ":")
  IN IF colons = {} THEN s
     ELSE SubSeq(s, 1, (CHOOSE i \in colons : \A j \in colons : i <= j) - 1)

\* A variant without the scan of STRUCTURE_CATEGORIES for a key the id
\* starts with.
get_category_for_entry_unscanned(entry) ==
  IF entry.type \in {"function", "keyword", "command", "constant"}
  THEN TYPE_CATEGORIES[CHOOSE k \in 1..Len(TYPE_CATEGORIES) :
                         TYPE_CATEGORIES[k].key = entry.type].category
  ELSE LET structure_name == IF Truthy(entry.parent_structure)
                             THEN entry.parent_structure ELSE entry.name
           name_upper == upper(structure_name)
       IN IF structure_category(name_upper) # None THEN structure_category(name_upper)
          ELSE IF structure_category(first_segment(name_upper)) # None
          THEN structure_category(first_segment(name_upper))
          ELSE None

get_category_for_entry(entry) ==
  IF entry.type \in {"function", "keyword", "command", "constant"}
  THEN TYPE_CATEGORIES[CHOOSE k \in 1..Len(TYPE_CATEGORIES) :
                         TYPE_CATEGORIES[k].key = entry.type].category
  ELSE LET structure_name == IF Truthy(entry.parent_structure)
                             THEN entry.parent_structure ELSE entry.name
           name_upper == upper(structure_name)
           id_upper == upper(entry.id)
           hits == {k \in 1..Len(STRUCTURE_CATEGORIES) :
                      startswith(id_upper, STRUCTURE_CATEGORIES[k].key \o ":")
                      \/ id_upper = STRUCTURE_CATEGORIES[k].key}
       IN IF structure_category(name_upper) # None THEN structure_category(name_upper)
          ELSE IF structure_category(first_segment(name_upper)) # None
          THEN structure_category(first_segment(name_upper))
          ELSE IF hits # {}
          THEN STRUCTURE_CATEGORIES[CHOOSE k \in hits : \A j \in hits : k <= j].category
          ELSE None

\* A variant without the fallback on the entry's type.
category_of_unmatched_left(entry) == get_category_for_entry(entry)

\* The category assign_categories gives one entry.
category_of(entry) ==
  LET category == get_category_for_entry(entry)
  IN IF Truthy(category) THEN category
     ELSE IF entry.type = "structure" THEN "Structures"
     ELSE IF entry.type = "suffix" THEN "Structure Members"
     ELSE "Miscellaneous"

\* A variant that counts every entry no rule matches.
counted_uncategorized_any_fallback(entry) == ~Truthy(get_category_for_entry(entry))

\* Whether assign_categories counts the entry as uncategorized.
counted_uncategorized(entry) ==
  ~Truthy(get_category_for_entry(entry)) /\ entry.type \notin {"structure", "suffix"}

assign_categories(entries) ==
  [i \in 1..Len(entries) |-> [entries[i] EXCEPT !.category = category_of(entries[i])]]

\* The count assign_categories reports.
uncategorized_count(entries) ==
  Cardinality({i \in 1..Len(entries) : counted_uncategorized(entries[i])})

(* ------------------------- Frequency Classifier ------------------------ *)

common_prefixes == <<"VESSEL:", "SHIP:", "ORBIT:", "BODY:", "VECTOR:", "DIRECTION:">>

\* A variant that consults the rare list only after the parent and prefix
\* rules.
get_usage_frequency_rare_late(entry) ==
  LET entry_id == upper(entry.id)
      name_upper == upper(entry.name)
      parent_upper == upper(entry.parent_structure)
  IN IF entry.deprecated THEN "rare"
     ELSE IF entry_id \in COMMON_ENTRIES \/ name_upper \in COMMON_ENTRIES THEN "common"
     ELSE IF Truthy(entry.parent_structure)
             /\ (parent_upper \in COMMON_ENTRIES
                 \/ (parent_upper \o ":" \o name_upper) \in COMMON_ENTRIES)
     THEN "moderate"
     ELSE IF \E k \in 1..Len(common_prefixes) : startswith(entry_id, common_prefixes[k])
     THEN "moderate"
     ELSE IF entry_id \in RARE_ENTRIES \/ name_upper \in RARE_ENTRIES THEN "rare"
     ELSE IF contains(entry_id, "GUI") \/ contains(entry_id, "ADDON") THEN "rare"
     ELSE "moderate"

\* A variant that looks at `deprecated` only after the common list.
get_usage_frequency_common_first(entry) ==
  LET entry_id == upper(entry.id)
      name_upper == upper(entry.name)
      parent_upper == upper(entry.parent_structure)
  IN IF entry_id \in COMMON_ENTRIES \/ name_upper \in COMMON_ENTRIES THEN "common"
     ELSE IF entry.deprecated THEN "rare"
     ELSE IF entry_id \in RARE_ENTRIES \/ name_upper \in RARE_ENTRIES THEN "rare"
     ELSE IF Truthy(entry.parent_structure)
             /\ (parent_upper \in COMMON_ENTRIES
                 \/ (parent_upper \o ":" \o name_upper) \in COMMON_ENTRIES)
     THEN "moderate"
     ELSE IF \E k \in 1..Len(common_prefixes) : startswith(entry_id, common_prefixes[k])
     THEN "moderate"
     ELSE IF contains(entry_id, "GUI") \/ contains(entry_id, "ADDON") THEN "rare"
     ELSE "moderate"

\* A variant that consults the parent rule before the rare list.
get_usage_frequency_parent_first(entry) ==
  LET entry_id == upper(entry.id)
      name_upper == upper(entry.name)
      parent_upper == upper(entry.parent_structure)
  IN IF entry.deprecated THEN "rare"
     ELSE IF entry_id \in COMMON_ENTRIES \/ name_upper \in COMMON_ENTRIES THEN "common"
     ELSE IF Truthy(entry.parent_structure)
             /\ (parent_upper \in COMMON_ENTRIES
                 \/ (parent_upper \o ":" \o name_upper) \in COMMON_ENTRIES)
     THEN "moderate"
     ELSE IF entry_id \in RARE_ENTRIES \/ name_upper \in RARE_ENTRIES THEN "rare"
     ELSE IF \E k \in 1..Len(common_prefixes) : startswith(entry_id, common_prefixes[k])
     THEN "moderate"
     ELSE IF contains(entry_id, "GUI") \/ contains(entry_id, "ADDON") THEN "rare"
     ELSE "moderate"

get_usage_frequency(entry) ==
  LET entry_id == upper(entry.id)
      name_upper == upper(entry.name)
      parent_upper == upper(entry.parent_structure)
  IN IF entry.deprecated THEN "rare"
     ELSE IF entry_id \in COMMON_ENTRIES \/ name_upper \in COMMON_ENTRIES THEN "common"
     ELSE IF entry_id \in RARE_ENTRIES \/ name_upper \in RARE_ENTRIES THEN "rare"
     ELSE IF Truthy(entry.parent_structure)
             /\ (parent_upper \in COMMON_ENTRIES
                 \/ (parent_upper \o ":" \o name_upper) \in COMMON_ENTRIES)
     THEN "moderate"
     ELSE IF \E k \in 1..Len(common_prefixes) : startswith(entry_id, common_prefixes[k])
     THEN "moderate"
     ELSE IF contains(entry_id, "GUI") \/ contains(entry_id, "ADDON") THEN "rare"
     ELSE "moderate"

assign_usage_frequency(entries) ==
  [i \in 1..Len(entries) |->
     [entries[i] EXCEPT !.usage_frequency = get_usage_frequency(entries[i])]]

\* The distribution assign_usage_frequency reports.
frequency_counts(entries) ==
  [f \in {"common", "moderate", "rare"} |->
     Cardinality({i \in 1..Len(entries) : get_usage_frequency(entries[i]) = f})]

(* ------------------------------ Validator ------------------------------ *)

\* repr(s) of a str: single quotes unless s holds ' and no "; backslash,
\* newline and the quote in use are escaped.
RECURSIVE escape_chars(_, _)
escape_chars(s, quote) ==
  IF Len(s) = 0 THEN ""
  ELSE IF Len(s) = 1
  THEN IF s = "\\" THEN "\\\\"
       ELSE IF s = "\n" THEN "\\n"
       ELSE IF s = quote THEN "\\" \o s
       ELSE s
  ELSE LET h == Len(s) \div 2
       IN escape_chars(SubSeq(s, 1, h), quote) \o escape_chars(SubSeq(s, h + 1, Len(s)), quote)

repr_str(s) ==
  IF s = None THEN "None"
  ELSE LET quote == IF contains(s, "'") /\ ~contains(s, "\"") THEN "\"" ELSE "'"
       IN quote \o escape_chars(s, quote) \o quote

\* repr(xs) of a list of str.
RECURSIVE join_reprs(_)
join_reprs(xs) ==
  IF xs = <<>> THEN ""
  ELSE IF Len(xs) = 1 THEN repr_str(xs[1])
  ELSE repr_str(xs[1]) \o ", " \o join_reprs(Tail(xs))

repr_list(xs) == "[" \o join_reprs(xs) \o "]"

\* The name of an enum member, from its value.
enum_name(value) ==
  IF value = None THEN "NONE"
  ELSE IF value = "get/set" THEN "GET_SET"
  ELSE upper(value)

\* repr(entry) of the dataclass.
repr_entry(entry) ==
  "DocEntry(id=" \o repr_str(entry.id)
  \o ", name=" \o repr_str(entry.name)
  \o ", type=<DocEntryType." \o enum_name(entry.type) \o ": " \o repr_str(entry.type) \o ">"
  \o ", parent_structure=" \o repr_str(entry.parent_structure)
  \o ", return_type=" \o repr_str(entry.return_type)
  \o ", access=<DocAccessMode." \o enum_name(entry.access) \o ": " \o repr_str(entry.access) \o ">"
  \o ", signature=" \o repr_str(entry.signature)
  \o ", description=" \o repr_str(entry.description)
  \o ", snippet=" \o repr_str(entry.snippet)
  \o ", source_ref=" \o repr_str(entry.source_ref)
  \o ", tags=" \o repr_list(entry.tags)
  \o ", aliases=" \o repr_list(entry.aliases)
  \o ", related=" \o repr_list(entry.related)
  \o ", deprecated=" \o (IF entry.deprecated THEN "True" ELSE "False")
  \o ", deprecation_note=" \o repr_str(entry.deprecation_note)
  \o ")"

\* f"{x}" of an Optional[str].
fmt(x) == IF x = None THEN "None" ELSE x

\* The warnings validate_entries appends for one entry.
entry_warnings(entry) ==
  (IF ~Truthy(entry.id) THEN <<"Entry missing ID: " \o repr_entry(entry)>> ELSE <<>>)
  \o (IF ~Truthy(entry.name) THEN <<"Entry missing name: " \o fmt(entry.id)>> ELSE <<>>)
  \o (IF Truthy(entry.description) /\ Len(entry.description) > 1000
      THEN <<"Entry " \o fmt(entry.id) \o " has very long description ("
             \o str_of_int(Len(entry.description)) \o " chars)">>
      ELSE <<>>)
  \o (IF ~Truthy(entry.description)
      THEN <<"Entry " \o fmt(entry.id) \o " has no description">> ELSE <<>>)
  \o (IF entry.type = "suffix" /\ ~Truthy(entry.parent_structure)
      THEN <<"Suffix " \o fmt(entry.id) \o " has no parent structure">> ELSE <<>>)
  \o (IF entry.access = "method" /\ ~Truthy(entry.signature)
      THEN <<"Method " \o fmt(entry.id) \o " has no signature">> ELSE <<>>)

RECURSIVE validate_entries_loop(_, _)
validate_entries_loop(entries, i) ==
  IF i > Len(entries) THEN <<>>
  ELSE entry_warnings(entries[i]) \o validate_entries_loop(entries, i + 1)

validate_entries(entries) == validate_entries_loop(entries, 1)

\* The list comprehension [r for r in entry.related if r in entry_ids].
keep_existing(related, entry_ids) == SelectSeq(related, LAMBDA r : r \in entry_ids)

\* A variant that never rewrites the related list.
validate_cross_references_entries_unrepaired(entries) == entries

\* The collection validate_cross_references leaves: a related list with an
\* id that no entry has is rebound to the list of those that exist.
validate_cross_references_entries(entries) ==
  LET entry_ids == ids_of(entries)
  IN [i \in 1..Len(entries) |->
        IF \E k \in 1..Len(entries[i].related) : entries[i].related[k] \notin entry_ids
        THEN [entries[i] EXCEPT !.related = keep_existing(@, entry_ids),
                                !.related_shared = FALSE]
        ELSE entries[i]]

\* A variant that also reports the entries whose related list it repairs.
RECURSIVE validate_cross_references_warnings_reporting(_, _)
validate_cross_references_warnings_reporting(entries, i) ==
  IF i > Len(entries) THEN <<>>
  ELSE LET entry == entries[i]
       IN (IF \E k \in 1..Len(entry.related) : entry.related[k] \notin ids_of(entries)
           THEN <<"Entry " \o fmt(entry.id) \o " references non-existent related entries">>
           ELSE <<>>)
          \o (IF Truthy(entry.parent_structure) /\ entry.parent_structure \notin ids_of(entries)
              THEN <<"Entry " \o fmt(entry.id) \o " references non-existent parent: "
                     \o entry.parent_structure>>
              ELSE <<>>)
          \o validate_cross_references_warnings_reporting(entries, i + 1)

\* The warnings validate_cross_references returns (its errors stay empty).
RECURSIVE validate_cross_references_warnings(_, _)
validate_cross_references_warnings(entries, i) ==
  IF i > Len(entries) THEN <<>>
  ELSE LET entry == entries[i]
       IN (IF Truthy(entry.parent_structure) /\ entry.parent_structure \notin ids_of(entries)
           THEN <<"Entry " \o fmt(entry.id) \o " references non-existent parent: "
                  \o entry.parent_structure>>
           ELSE <<>>)
          \o validate_cross_references_warnings(entries, i + 1)

RECURSIVE validate_tag_coverage_loop(_, _)
validate_tag_coverage_loop(entries, i) ==
  IF i > Len(entries) THEN <<>>
  ELSE LET entry == entries[i]
       IN (IF Len(entry.tags) < 2
           THEN <<"Entry " \o fmt(entry.id) \o " has only " \o str_of_int(Len(entry.tags))
                  \o " tags: " \o repr_list(entry.tags)>>
           ELSE <<>>)
          \o validate_tag_coverage_loop(entries, i + 1)

validate_tag_coverage(entries) == validate_tag_coverage_loop(entries, 1)

(* ------------------------------- tag index ----------------------------- *)

\* The standard tag descriptions of build_tag_index.
tag_descriptions ==
  <<[tag |-> "vessel", description |-> "Vessel properties and control"],
     [tag |-> "orbit", description |-> "Orbital mechanics"],
     [tag |-> "body", description |-> "Celestial bodies"],
     [tag |-> "celestial", description |-> "Celestial bodies"],
     [tag |-> "navigation", description |-> "Steering and waypoints"],
     [tag |-> "control", description |-> "Throttle, staging, RCS"],
     [tag |-> "resource", description |-> "Fuel, electricity"],
     [tag |-> "crew", description |-> "Kerbals and crew"],
     [tag |-> "science", description |-> "Experiments and data"],
     [tag |-> "part", description |-> "Part modules"],
     [tag |-> "math", description |-> "Mathematical functions"],
     [tag |-> "vector", description |-> "Vector operations"],
     [tag |-> "direction", description |-> "Direction and heading"],
     [tag |-> "language", description |-> "kOS language constructs"],
     [tag |-> "io", description |-> "Files and communication"],
     [tag |-> "file", description |-> "File operations"],
     [tag |-> "terminal", description |-> "Terminal output"],
     [tag |-> "time", description |-> "Time and scheduling"],
     [tag |-> "core", description |-> "Fundamental structures"],
     [tag |-> "flight", description |-> "Flight operations"],
     [tag |-> "staging", description |-> "Stage management"],
     [tag |-> "collection", description |-> "Lists, lexicons, etc."],
     [tag |-> "trigger", description |-> "Event triggers"],
     [tag |-> "binding", description |-> "Lock bindings"],
     [tag |-> "variables", description |-> "Variable management"],
     [tag |-> "function", description |-> "Built-in functions"],
     [tag |-> "command", description |-> "Commands"],
     [tag |-> "keyword", description |-> "Language keywords"],
     [tag |-> "constant", description |-> "Constants"],
     [tag |-> "systems", description |-> "Ship systems"],
     [tag |-> "action", description |-> "Action groups"],
     [tag |-> "basic", description |-> "Basic math operations"],
     [tag |-> "trigonometry", description |-> "Trigonometric functions"],
     [tag |-> "angle", description |-> "Angle calculations"],
     [tag |-> "random", description |-> "Random number generation"],
     [tag |-> "program", description |-> "Program execution"],
     [tag |-> "numeric", description |-> "Numeric values"],
     [tag |-> "boolean", description |-> "Boolean values"],
     [tag |-> "communication", description |-> "Communication"],
     [tag |-> "gui", description |-> "GUI elements"],
     [tag |-> "misc", description |-> "Miscellaneous"]>>

\* str.title(): a letter that follows a letter is lowered, any other letter
\* is raised.
RECURSIVE title_from(_, _)
title_from(s, after_letter) ==
  IF s = "" THEN ""
  ELSE LET c == Head(s)
           is_letter == IsUpperChar(c) \/ IsLowerChar(c)
       IN (IF after_letter THEN to_lower[c] ELSE to_upper[c]) \o title_from(Tail(s), is_letter)

title(s) == title_from(s, FALSE)

\* tag_descriptions.get(tag, tag.title())
tag_description(tag) ==
  LET at == {k \in 1..Len(tag_descriptions) : tag_descriptions[k].tag = tag}
  IN IF at = {} THEN title(tag) ELSE tag_descriptions[CHOOSE k \in at : TRUE].description

\* build_tag_index: the dict, as the list of its items in insertion order.
build_tag_index(entries) ==
  LET all_tags == UNION {set_of(entries[i].tags) : i \in 1..Len(entries)}
      keys == sorted(all_tags)
  IN [k \in 1..Len(keys) |-> [tag |-> keys[k], description |-> tag_description(keys[k])]]

(* ------------------------------ raw entries ---------------------------- *)

\* The raw entries the parsers hand to the pipeline are drawn from these.
RawLockLanguage ==
  [DocEntry("LOCK", "LOCK", "keyword") EXCEPT !.tags = <<"language">>]

RawLockCore ==
  [DocEntry("LOCK", "LOCK", "keyword") EXCEPT
     !.tags = <<"core">>, !.description = "Locks a value"]

RawLockSnippet ==
  [DocEntry("LOCK", "LOCK", "keyword") EXCEPT
     !.description = "",
     !.snippet = "LOCK THROTTLE TO 1.",
     !.source_ref = BASE_URL \o "language/flow.html#lock",
     !.tags = <<"binding", "language">>,
     !.related = <<"UNLOCK">>]

RawUnlock ==
  [DocEntry("UNLOCK", "UNLOCK", "keyword") EXCEPT
     !.description = "Releases a lock made by LOCK.",
     !.source_ref = BASE_URL \o "language/flow.html#unlock",
     !.tags = <<"language">>]

RawNormal ==
  [DocEntry("NORMAL", "NORMAL", "constant") EXCEPT
     !.return_type = "Direction",
     !.access = "get",
     !.description = "Perpendicular to the orbit plane, opposite of ANTINORMAL. See RADIAL, ANTIRADIAL, RETROGRADE, SRFPROGRADE, SRFRETROGRADE, VECTOR, THROTTLE and STEERING.",
     !.source_ref = BASE_URL \o "bindings.html",
     !.tags = <<"constant", "direction">>,
     !.related = <<"PROGRADE", "TARGET">>]

RawRetrograde ==
  [DocEntry("RETROGRADE", "RETROGRADE", "constant") EXCEPT
     !.return_type = "Direction",
     !.description = "Points against the orbital velocity.",
     !.source_ref = BASE_URL \o "bindings.html",
     !.tags = <<"direction">>]

RawVessel ==
  [DocEntry("VESSEL", "Vessel", "structure") EXCEPT
     !.description = "All vessels share a structure. To get a variable referring to any vessel you can do this: SET MY_VESS TO VESSEL(\"Some Ship Name\"). The suffixes of a vessel give its mass, its altitude, its velocity and the parts it is made of.",
     !.source_ref = BASE_URL \o "structures/vessels/vessel.html",
     !.tags = <<"vessel">>]

RawVesselAltitude ==
  [DocEntry("VESSEL:ALTITUDE", "ALTITUDE", "suffix") EXCEPT
     !.parent_structure = "VESSEL",
     !.return_type = "Scalar",
     !.access = "get",
     !.description = "",
     !.source_ref = BASE_URL \o "structures/vessels/vessel.html#attribute:VESSEL:ALTITUDE"]

RawFooBar ==
  [DocEntry("FOO:BAR", "BAR", "suffix") EXCEPT !.parent_structure = "FOO"]

RawAbs ==
  [DocEntry("FUNCTION:ABS", "ABS", "function") EXCEPT
     !.return_type = "Scalar",
     !.signature = "ABS(a)",
     !.description = "Returns the absolute value of the input.",
     !.deprecated = TRUE,
     !.deprecation_note = "Use the suffix instead."]

RawEntries ==
  {RawLockLanguage, RawLockCore, RawLockSnippet, RawUnlock, RawNormal, RawRetrograde,
   RawVessel, RawVesselAltitude, RawFooBar, RawAbs}

\* The input lists: every list of at most MaxEntries raw entries.
InputLists == UNION {[1..n -> RawEntries] : n \in 0..MaxEntries}

(* ------------------------------ the pipeline --------------------------- *)

VARIABLES
  entries,          \* the collection (all_entries)
  before,           \* the collection the last stage was given
  last,             \* the stage run last ("input" before any)
  prev,             \* the stage run before it
  essential_lists,  \* the tags/related list objects of ESSENTIAL_ENTRIES
  warnings,         \* what the last validator pass returned
  uncategorized,    \* the count assign_categories reported
  tags,             \* the tag index main() builds (None before)
  index,            \* the DocIndex main() creates (None before)
  frame             \* deduplicate_entries while its loop is followed step by step

vars == <<entries, before, last, prev, essential_lists, warnings, uncategorized,
          tags, index, frame>>

\* No call of deduplicate_entries is being followed step by step.
frame_idle == [running |-> FALSE, entry_map |-> <<>>, rest |-> <<>>]

\* The stages that may run after `stage`: the call order of main() and of
\* the classifier and validator passes; any stage may be the first one run
\* on a list, and the Deduplicator may be run again on its own output.
may_follow(stage) ==
  CASE stage = "input" ->
         {"add_essential_entries", "deduplicate_entries", "build_related_links",
          "infer_additional_tags", "assign_domain_tags", "assign_categories",
          "assign_usage_frequency", "validate_entries", "validate_cross_references",
          "validate_tag_coverage"}
    [] stage = "add_essential_entries" -> {"deduplicate_entries"}
    [] stage = "deduplicate_entries" -> {"deduplicate_entries", "build_related_links"}
    [] stage = "build_related_links" -> {"infer_additional_tags", "assign_domain_tags"}
    [] stage = "infer_additional_tags" -> {"assign_domain_tags", "validate_entries"}
    [] stage = "assign_domain_tags" -> {"assign_categories", "validate_tag_coverage"}
    [] stage = "assign_categories" -> {"assign_usage_frequency"}
    [] stage = "assign_usage_frequency" -> {"validate_entries"}
    [] stage = "validate_entries" -> {"validate_cross_references"}
    [] stage = "validate_cross_references" -> {"validate_tag_coverage"}
    [] OTHER -> {}

CanRun(stage) ==
  /\ stage \in may_follow(last)
  /\ stage = last => prev # last

\* What every stage does to the bookkeeping: `es` is the collection it leaves.
Ran(stage, es) ==
  /\ entries' = es
  /\ before' = entries
  /\ last' = stage
  /\ prev' = last
  /\ essential_lists' = lists_after(essential_lists, es)
  /\ frame' = frame_idle

Init ==
  /\ entries \in InputLists
  /\ before = <<>>
  /\ last = "input"
  /\ prev = "input"
  /\ essential_lists = essential_lists_initial
  /\ warnings = <<>>
  /\ uncategorized = 0
  /\ tags = None
  /\ index = None
  /\ frame = frame_idle

AddEssentialEntries ==
  /\ CanRun("add_essential_entries")
  /\ Ran("add_essential_entries", add_essential_entries(entries, essential_lists, BASE_URL))
  /\ UNCHANGED <<warnings, uncategorized, tags, index>>

DeduplicateEntries ==
  /\ CanRun("deduplicate_entries")
  /\ Ran("deduplicate_entries", deduplicate_entries(entries))
  /\ UNCHANGED <<warnings, uncategorized, tags, index>>

BuildRelatedLinks ==
  /\ CanRun("build_related_links")
  /\ \E seed \in 0..MaxSeed :
       Ran("build_related_links", build_related_links(entries, seed))
  /\ UNCHANGED <<warnings, uncategorized, tags, index>>

InferAdditionalTags ==
  /\ CanRun("infer_additional_tags")
  /\ \E seed \in 0..MaxSeed :
       Ran("infer_additional_tags", infer_additional_tags(entries, seed))
  /\ UNCHANGED <<warnings, uncategorized, tags, index>>

AssignDomainTags ==
  /\ CanRun("assign_domain_tags")
  /\ Ran("assign_domain_tags", assign_domain_tags(entries))
  /\ UNCHANGED <<warnings, uncategorized, tags, index>>

AssignCategories ==
  /\ CanRun("assign_categories")
  /\ Ran("assign_categories", assign_categories(entries))
  /\ uncategorized' = uncategorized_count(entries)
  /\ UNCHANGED <<warnings, tags, index>>

AssignUsageFrequency ==
  /\ CanRun("assign_usage_frequency")
  /\ Ran("assign_usage_frequency", assign_usage_frequency(entries))
  /\ UNCHANGED <<warnings, uncategorized, tags, index>>

\* A variant that drops the entries it flags for a missing id.
ValidateEntriesDropping ==
  /\ CanRun("validate_entries")
  /\ Ran("validate_entries", SelectSeq(entries, LAMBDA e : Truthy(e.id)))
  /\ warnings' = validate_entries(entries)
  /\ UNCHANGED <<uncategorized, tags, index>>

ValidateEntries ==
  /\ CanRun("validate_entries")
  /\ Ran("validate_entries", entries)
  /\ warnings' = validate_entries(entries)
  /\ UNCHANGED <<uncategorized, tags, index>>

ValidateCrossReferences ==
  /\ CanRun("validate_cross_references")
  /\ Ran("validate_cross_references", validate_cross_references_entries(entries))
  /\ warnings' = validate_cross_references_warnings(entries, 1)
  /\ UNCHANGED <<uncategorized, tags, index>>

ValidateTagCoverage ==
  /\ CanRun("validate_tag_coverage")
  /\ Ran("validate_tag_coverage", entries)
  /\ warnings' = validate_tag_coverage(entries)
  /\ UNCHANGED <<uncategorized, tags, index>>

Next ==
  \/ AddEssentialEntries
  \/ DeduplicateEntries
  \/ BuildRelatedLinks
  \/ InferAdditionalTags
  \/ AssignDomainTags
  \/ AssignCategories
  \/ AssignUsageFrequency
  \/ ValidateEntries
  \/ ValidateCrossReferences
  \/ ValidateTagCoverage

Spec == Init /\ [][Next]_vars

(* ------------------------------- main() -------------------------------- *)

\* The post-processing of main(): the call main makes after `stage`.
main_call_after(stage) ==
  CASE stage = "input" -> "add_essential_entries"
    [] stage = "add_essential_entries" -> "deduplicate_entries"
    [] stage = "deduplicate_entries" -> "build_related_links"
    [] stage = "build_related_links" -> "infer_additional_tags"
    [] stage = "infer_additional_tags" -> "build_tag_index"
    [] stage = "build_tag_index" -> "validate_entries"
    [] stage = "validate_entries" -> "create_index"
    [] OTHER -> "return"

MainAddEssentialEntries ==
  /\ main_call_after(last) = "add_essential_entries"
  /\ Ran("add_essential_entries", add_essential_entries(entries, essential_lists, BASE_URL))
  /\ UNCHANGED <<warnings, uncategorized, tags, index>>

MainDeduplicateEntries ==
  /\ main_call_after(last) = "deduplicate_entries"
  /\ Ran("deduplicate_entries", deduplicate_entries(entries))
  /\ UNCHANGED <<warnings, uncategorized, tags, index>>

MainBuildRelatedLinks ==
  /\ main_call_after(last) = "build_related_links"
  /\ \E seed \in 0..MaxSeed :
       Ran("build_related_links", build_related_links(entries, seed))
  /\ UNCHANGED <<warnings, uncategorized, tags, index>>

MainInferAdditionalTags ==
  /\ main_call_after(last) = "infer_additional_tags"
  /\ \E seed \in 0..MaxSeed :
       Ran("infer_additional_tags", infer_additional_tags(entries, seed))
  /\ UNCHANGED <<warnings, uncategorized, tags, index>>

MainBuildTagIndex ==
  /\ main_call_after(last) = "build_tag_index"
  /\ Ran("build_tag_index", entries)
  /\ tags' = build_tag_index(entries)
  /\ UNCHANGED <<warnings, uncategorized, index>>

MainValidateEntries ==
  /\ main_call_after(last) = "validate_entries"
  /\ Ran("validate_entries", entries)
  /\ warnings' = validate_entries(entries)
  /\ UNCHANGED <<uncategorized, tags, index>>

\* create_index(all_entries, tags): the index holds the list and the dict.
MainCreateIndex ==
  /\ main_call_after(last) = "create_index"
  /\ Ran("create_index", entries)
  /\ index' = [entries |-> entries, tags |-> tags]
  /\ UNCHANGED <<warnings, uncategorized, tags>>

MainNext ==
  \/ MainAddEssentialEntries
  \/ MainDeduplicateEntries
  \/ MainBuildRelatedLinks
  \/ MainInferAdditionalTags
  \/ MainBuildTagIndex
  \/ MainValidateEntries
  \/ MainCreateIndex

MainSpec == Init /\ [][MainNext]_vars

(* ------------------------ one entry, stage by stage -------------------- *)

\* The field values the single entries handed to a per-entry stage are made
\* of: ids with and without a known structure prefix (one empty, one in
\* mixed case), names in and out of the allow and deny lists, every type.
EntryIds ==
  {"", "GUI:BUTTON:CLICK", "VESSEL:ALTITUDE", "SKIN:ADD", "Skin:Add", "FOO:BAR",
   "SHIP:CREW", "LOCK"}
EntryNames == {"CLICK", "ADD", "MASS", "TIPDISPLAY"}
EntryParents == {None, "VESSEL", "SHIP"}
EntryReturnTypes == {None, "Scalar"}
EntryTags == {<<>>, <<"zeta">>, <<"zeta", "orbit">>}

ProbeEntries ==
  {[DocEntry(id, name, type) EXCEPT
      !.parent_structure = parent, !.return_type = return_type, !.deprecated = deprecated,
      !.tags = carried] :
     id \in EntryIds, name \in EntryNames, type \in DocEntryType,
     parent \in EntryParents, return_type \in EntryReturnTypes, deprecated \in BOOLEAN,
     carried \in EntryTags}

EntryInit ==
  /\ entries \in {<<e>> : e \in ProbeEntries}
  /\ before = <<>>
  /\ last = "input"
  /\ prev = "input"
  /\ essential_lists = essential_lists_initial
  /\ warnings = <<>>
  /\ uncategorized = 0
  /\ tags = None
  /\ index = None
  /\ frame = frame_idle

\* The per-entry stages, in any order may_follow admits.
EntryNext ==
  \/ AssignDomainTags
  \/ AssignCategories
  \/ AssignUsageFrequency
  \/ ValidateEntries
  \/ ValidateTagCoverage

EntrySpec == EntryInit /\ [][EntryNext]_vars

(* --------------------- a structure and its suffixes -------------------- *)

\* Names of suffixes of the structure ORBIT.
OrbitSuffixNames ==
  <<"APOAPSIS", "PERIAPSIS", "PERIOD", "INCLINATION", "ECCENTRICITY", "BODY",
    "TRUEANOMALY", "SEMIMAJORAXIS">>

\* The suffix entry the structure parser makes for the k-th name.
OrbitSuffix(k) ==
  [DocEntry("ORBIT:" \o OrbitSuffixNames[k], OrbitSuffixNames[k], "suffix") EXCEPT
     !.parent_structure = "ORBIT"]

\* The structure entry, with the description the parser gives by default
\* and with one that names two of its suffixes.
RawOrbit ==
  [DocEntry("ORBIT", "Orbit", "structure") EXCEPT
     !.description = "The ORBIT structure.", !.tags = <<"orbit">>]

\* A suffix of the suffix ORBIT:BODY: its parent, when in the collection, is
\* not a structure.
RawOrbitBodyName ==
  [DocEntry("ORBIT:BODY:NAME", "NAME", "suffix") EXCEPT !.parent_structure = "ORBIT:BODY"]
RawOrbitDescribed ==
  [RawOrbit EXCEPT !.description = "The period and the body of an orbit."]

\* The related ids a structure entry may carry into the stage.
OrbitCarried ==
  {<<>>, <<"ORBIT:PERIOD">>,
   <<"ORBIT:APOAPSIS", "ORBIT:PERIAPSIS", "ORBIT:PERIOD", "ORBIT:INCLINATION">>,
   <<"BODY", "KERBIN", "MUN", "ORBITABLE", "SHIP", "SUN", "TARGET", "VESSEL">>}

\* The suffix entries with the indices of S, in the order of the table.
RECURSIVE orbit_suffixes(_, _)
orbit_suffixes(S, k) ==
  IF k > min(MaxSuffixes, Len(OrbitSuffixNames)) THEN <<>>
  ELSE (IF k \in S THEN <<OrbitSuffix(k)>> ELSE <<>>) \o orbit_suffixes(S, k + 1)

\* The structure before or after some of its suffixes.
OrbitLists ==
  {IF structure_first THEN <<[structure EXCEPT !.related = carried]>> \o orbit_suffixes(S, 1)
   ELSE orbit_suffixes(S, 1) \o <<[structure EXCEPT !.related = carried]>> :
     structure \in {RawOrbit, RawOrbitDescribed}, carried \in OrbitCarried,
     S \in SUBSET (1..min(MaxSuffixes, Len(OrbitSuffixNames))),
     structure_first \in BOOLEAN}

\* The same lists, and each with the nested suffix before or after it.
StructureLists ==
  OrbitLists
    \cup {<<RawOrbitBodyName>> \o es : es \in OrbitLists}
    \cup {es \o <<RawOrbitBodyName>> : es \in OrbitLists}

StructureInit ==
  /\ entries \in StructureLists
  /\ before = <<>>
  /\ last = "input"
  /\ prev = "input"
  /\ essential_lists = essential_lists_initial
  /\ warnings = <<>>
  /\ uncategorized = 0
  /\ tags = None
  /\ index = None
  /\ frame = frame_idle

\* The Deduplicator, the Cross-Referencer, the tag inference and the
\* validation passes on such a collection.
StructureNext ==
  \/ DeduplicateEntries
  \/ BuildRelatedLinks
  \/ InferAdditionalTags
  \/ ValidateEntries
  \/ ValidateCrossReferences

StructureSpec == StructureInit /\ [][StructureNext]_vars

(* ------------------ the Deduplicator, iteration by iteration ----------- *)

\* Two more entries for LOCK: one that ties with RawLockLanguage, one with a
\* snippet and a description of its own.
RawLockBinding ==
  [DocEntry("LOCK", "LOCK", "keyword") EXCEPT !.tags = <<"binding">>]

RawLockSteering ==
  [DocEntry("LOCK", "LOCK", "keyword") EXCEPT
     !.description = "Lock",
     !.snippet = "LOCK STEERING TO UP.",
     !.source_ref = BASE_URL \o "commands/flight.html",
     !.tags = <<"language">>,
     !.related = <<"STEERING">>]

DuplicateEntries ==
  {RawLockLanguage, RawLockCore, RawLockSnippet, RawLockBinding, RawLockSteering, RawUnlock}

DedupInit ==
  /\ entries \in UNION {[1..n -> DuplicateEntries] : n \in 0..MaxDuplicates}
  /\ before = <<>>
  /\ last = "input"
  /\ prev = "input"
  /\ essential_lists = essential_lists_initial
  /\ warnings = <<>>
  /\ uncategorized = 0
  /\ tags = None
  /\ index = None
  /\ frame = frame_idle

\* entry_map = {} and the start of the for loop.
DedupEnter ==
  /\ ~frame.running
  /\ CanRun("deduplicate_entries")
  /\ frame' = [running |-> TRUE, entry_map |-> <<>>, rest |-> entries]
  /\ UNCHANGED <<entries, before, last, prev, essential_lists, warnings, uncategorized,
                 tags, index>>

\* One iteration of the for loop.
DedupIterate ==
  /\ frame.running
  /\ frame.rest # <<>>
  /\ frame' = [frame EXCEPT !.entry_map = dedup_step(@, Head(frame.rest)),
                            !.rest = Tail(@)]
  /\ UNCHANGED <<entries, before, last, prev, essential_lists, warnings, uncategorized,
                 tags, index>>

\* return list(entry_map.values())
DedupReturn ==
  /\ frame.running
  /\ frame.rest = <<>>
  /\ Ran("deduplicate_entries", frame.entry_map)
  /\ UNCHANGED <<warnings, uncategorized, tags, index>>

DedupNext ==
  \/ DedupEnter
  \/ DedupIterate
  \/ DedupReturn

DedupSpec == DedupInit /\ [][DedupNext]_vars

(* ------------- a per-entry stage, its entries in any order ------------- *)

\* The body of the loop of each per-entry stage, run on entry i of the
\* collection as the loop has left it so far.
build_related_links_body(es, i, seed) ==
  [es EXCEPT ![i] = [@ EXCEPT
     !.related = truncate_related(list_of_set(related_ids_of(es[i], es), seed)),
     !.related_shared = FALSE]]

\* A variant that also takes the tags the parent entry has at that moment.
assign_domain_tags_body_inheriting(es, i) ==
  LET at == {j \in 1..Len(es) : es[j].id = es[i].parent_structure}
      inherited == UNION {set_of(es[j].tags) : j \in at}
  IN [es EXCEPT ![i] = [@ EXCEPT
        !.tags = sorted(set_of(assign_tags_to_entry(es[i])) \cup inherited),
        !.tags_shared = FALSE]]

assign_domain_tags_body(es, i) ==
  [es EXCEPT ![i] = [@ EXCEPT !.tags = assign_tags_to_entry(es[i]), !.tags_shared = FALSE]]

assign_categories_body(es, i) ==
  [es EXCEPT ![i] = [@ EXCEPT !.category = category_of(es[i])]]

assign_usage_frequency_body(es, i) ==
  [es EXCEPT ![i] = [@ EXCEPT !.usage_frequency = get_usage_frequency(es[i])]]

stage_body(stage, es, i, seed) ==
  CASE stage = "build_related_links" -> build_related_links_body(es, i, seed)
    [] stage = "assign_domain_tags" -> assign_domain_tags_body(es, i)
    [] stage = "assign_categories" -> assign_categories_body(es, i)
    [] stage = "assign_usage_frequency" -> assign_usage_frequency_body(es, i)

\* The loop of a stage when it visits the entries in the order `order`
\* (order[k] is the index of the k-th entry visited), from the k-th visit on.
RECURSIVE visit_in_order(_, _, _, _, _)
visit_in_order(stage, es, order, k, seed) ==
  IF k > Len(es) THEN es
  ELSE visit_in_order(stage, stage_body(stage, es, order[k], seed), order, k + 1, seed)

\* Entries with ids of their own: a structure, two of its suffixes, a suffix
\* of one of them, and two keywords.
VisitedEntries ==
  {RawOrbitDescribed, OrbitSuffix(3), OrbitSuffix(6), RawOrbitBodyName, RawLockSnippet,
   RawUnlock}

VisitInit ==
  /\ entries \in {es \in UNION {[1..n -> VisitedEntries] : n \in 0..MaxVisited} :
                    \A i, j \in 1..Len(es) : es[i] = es[j] => i = j}
  /\ before = <<>>
  /\ last = "input"
  /\ prev = "input"
  /\ essential_lists = essential_lists_initial
  /\ warnings = <<>>
  /\ uncategorized = 0
  /\ tags = None
  /\ index = None
  /\ frame = frame_idle

\* Each stage, run on the input list, visiting the entries in some order.
VisitBuildRelatedLinks ==
  /\ last = "input"
  /\ CanRun("build_related_links")
  /\ \E order \in Permutations(1..Len(entries)) : \E seed \in 0..MaxSeed :
       Ran("build_related_links",
           visit_in_order("build_related_links", entries, order, 1, seed))
  /\ UNCHANGED <<warnings, uncategorized, tags, index>>

VisitAssignDomainTags ==
  /\ last = "input"
  /\ CanRun("assign_domain_tags")
  /\ \E order \in Permutations(1..Len(entries)) :
       Ran("assign_domain_tags", visit_in_order("assign_domain_tags", entries, order, 1, 0))
  /\ UNCHANGED <<warnings, uncategorized, tags, index>>

VisitAssignCategories ==
  /\ last = "input"
  /\ CanRun("assign_categories")
  /\ \E order \in Permutations(1..Len(entries)) :
       Ran("assign_categories", visit_in_order("assign_categories", entries, order, 1, 0))
  /\ uncategorized' = uncategorized_count(entries)
  /\ UNCHANGED <<warnings, tags, index>>

VisitAssignUsageFrequency ==
  /\ last = "input"
  /\ CanRun("assign_usage_frequency")
  /\ \E order \in Permutations(1..Len(entries)) :
       Ran("assign_usage_frequency",
           visit_in_order("assign_usage_frequency", entries, order, 1, 0))
  /\ UNCHANGED <<warnings, uncategorized, tags, index>>

VisitNext ==
  \/ VisitBuildRelatedLinks
  \/ VisitAssignDomainTags
  \/ VisitAssignCategories
  \/ VisitAssignUsageFrequency

VisitSpec == VisitInit /\ [][VisitNext]_vars

(* ------------------------------ properties ----------------------------- *)

\* Whether no id occurs twice in a list of entries.
ids_unique(es) == \A i, j \in 1..Len(es) : es[i].id = es[j].id => i = j

\* C1: the list deduplicate_entries returns holds exactly one entry for each
\* distinct id of its input: no id occurs twice and no input id is missing.
DeduplicatorOnePerId ==
  last = "deduplicate_entries" =>
    /\ ids_unique(entries)
    /\ ids_of(entries) = ids_of(before)

\* The Deduplicator was given a list with a repeated id and has dropped the
\* repeat, next to entries of other ids.
DeduplicatorOnePerIdWitness ==
  /\ last = "deduplicate_entries"
  /\ ~ids_unique(before)
  /\ Len(entries) < Len(before)
  /\ Len(entries) >= 2

\* C2: deduplicate_entries is idempotent: run on its own output it returns the
\* same collection, with the same entries, field values and order.
DeduplicatorIdempotent ==
  (last = "deduplicate_entries" /\ prev = "deduplicate_entries") => entries = before

\* The Deduplicator has run twice in a row on a collection of several ids, one
\* of them LOCK with the tags of two merged duplicates.
DeduplicatorIdempotentWitness ==
  /\ last = "deduplicate_entries"
  /\ prev = "deduplicate_entries"
  /\ Len(entries) >= 2
  /\ \E i \in 1..Len(entries) :
        entries[i].id = "LOCK" /\ {"binding", "core"} \subseteq set_of(entries[i].tags)

\* C3: every entry the Tag Engine (assign_domain_tags) has tagged carries at
\* least 2 tags, so validate_tag_coverage run right after it reports nothing.
TagEngineCoverageFloor ==
  /\ last = "assign_domain_tags" =>
       \A i \in 1..Len(entries) : Len(entries[i].tags) >= 2
  /\ (last = "validate_tag_coverage" /\ prev = "assign_domain_tags") => warnings = <<>>

\* Whether every related list has at most 10 members.
related_bounded(es) == \A i \in 1..Len(es) : Len(es[i].related) <= 10

\* The stages that run after the Cross-Referencer.
StagesAfterCrossReferencer ==
  {"infer_additional_tags", "assign_domain_tags", "assign_categories",
   "assign_usage_frequency", "validate_entries", "validate_cross_references",
   "validate_tag_coverage"}

\* C4: build_related_links leaves every related list with at most 10 members,
\* and every later stage keeps it at at most 10 members.
RelatedAtMostTen ==
  [][/\ last' = "build_related_links" => related_bounded(entries')
     /\ (related_bounded(entries) /\ last' \in StagesAfterCrossReferencer)
          => related_bounded(entries')]_vars

\* The Cross-Referencer has cut a related set of more than 10 ids to 10.
RelatedAtMostTenWitness ==
  /\ last = "build_related_links"
  /\ \E i \in 1..Len(entries) :
        /\ Len(entries[i].related) = 10
        /\ Cardinality(related_ids_of(before[i], before)) > 10

RelatedIdsExist ==
  last = "validate_cross_references" =>
    \A i \in 1..Len(entries) : set_of(entries[i].related) \subseteq ids_of(entries)

\* The integrity pass has dropped a dangling id from a related list and kept
\* an id that exists.
RelatedIdsExistWitness ==
  /\ last = "validate_cross_references"
  /\ \E i \in 1..Len(entries) :
        /\ entries[i].related # <<>>
        /\ Len(entries[i].related) < Len(before[i].related)

\* C7: for every complementary pair (A, B) whose two ids are in the
\* collection, after build_related_links A's related list contains B and
\* B's contains A.
ComplementaryPairsSymmetric ==
  last = "build_related_links" =>
    \A k \in 1..Len(complementary_pairs) :
      \A i, j \in 1..Len(entries) :
        (entries[i].id = complementary_pairs[k][1]
         /\ entries[j].id = complementary_pairs[k][2])
        => /\ complementary_pairs[k][2] \in set_of(entries[i].related)
           /\ complementary_pairs[k][1] \in set_of(entries[j].related)

\* C8: the Deduplicator given {id LOCK, tags [language]} and then {id LOCK,
\* tags [core], description "Locks a value"} returns a single LOCK entry whose
\* tags contain both "language" and "core".
LockScenarioKeepsBothTags ==
  (last = "deduplicate_entries" /\ before = <<RawLockLanguage, RawLockCore>>) =>
    /\ Len(entries) = 1
    /\ entries[1].id = "LOCK"
    /\ {"language", "core"} \subseteq set_of(entries[1].tags)

\* len(x) of an optional string, with None and "" counting 0.
length_or_zero(x) == IF x = None THEN 0 ELSE Len(x)

\* C9: the quality score of every entry equals min(len(description), 200)
\* + 50 if a snippet is present + 5 per tag + 3 per related id + 10 if the
\* source reference contains '#', absent and empty fields contributing 0.
QualityScoreFormula ==
  \A i \in 1..Len(entries) :
    LET e == entries[i]
        capped == IF length_or_zero(e.description) <= 200
                  THEN length_or_zero(e.description) ELSE 200
        has_snippet == length_or_zero(e.snippet) > 0
        has_fragment == e.source_ref # None
                        /\ \E p \in 1..Len(e.source_ref) : Char(e.source_ref, p) = "#"
    IN _entry_quality_score(e)
         = capped + 50 * (IF has_snippet THEN 1 ELSE 0) + 5 * Len(e.tags)
           + 3 * Len(e.related) + 10 * (IF has_fragment THEN 1 ELSE 0)

\* The Deduplicator has scored two entries of one id, the survivor having a
\* description of more than 200 characters.
QualityScoreFormulaWitness ==
  /\ last = "deduplicate_entries"
  /\ Len(entries) < Len(before)
  /\ \E i \in 1..Len(entries) :
        Truthy(entries[i].description) /\ Len(entries[i].description) > 200

\* The rows of ESSENTIAL_ENTRIES whose id no entry of `es` has, in table order.
RECURSIVE missing_rows(_, _)
missing_rows(es, k) ==
  IF k > Len(ESSENTIAL_ENTRIES) THEN <<>>
  ELSE (IF ESSENTIAL_ENTRIES[k].id \in ids_of(es) THEN <<>> ELSE <<k>>)
       \o missing_rows(es, k + 1)

\* C10: add_essential_entries leaves every entry it was given as it was and
\* appends exactly one entry for each table id no given entry has, with the
\* table's field values and the fallback URL as source_ref; nothing is
\* appended for a table id that is present.
InjectorAppendsOnlyMissing ==
  last = "add_essential_entries" =>
    LET missing == missing_rows(before, 1)
    IN /\ Len(entries) = Len(before) + Len(missing)
       /\ SubSeq(entries, 1, Len(before)) = before
       /\ \A m \in 1..Len(missing) :
            LET row == ESSENTIAL_ENTRIES[missing[m]]
                e == entries[Len(before) + m]
            IN /\ e.id = row.id
               /\ e.type = row.type
               /\ e.return_type = row.return_type
               /\ e.access = row.access
               /\ e.description = row.description
               /\ e.snippet = row.snippet
               /\ e.tags = row.tags
               /\ e.related = row.related
               /\ e.source_ref = BASE_URL

\* The Injector was given a collection that has one of the table's ids and
\* has appended entries for the other ids only.
InjectorAppendsOnlyMissingWitness ==
  /\ last = "add_essential_entries"
  /\ \E i \in 1..Len(before) : before[i].id = "RETROGRADE"
  /\ Len(entries) > Len(before)
  /\ Len(entries) < Len(before) + Len(ESSENTIAL_ENTRIES)

\* The stage the pipeline is to run after `stage`: Injector, Deduplicator,
\* Cross-Referencer, Tag Engine, Category Classifier, Frequency Classifier,
\* Validator, and then index assembly.
stage_order_after(stage) ==
  CASE stage = "input" -> "add_essential_entries"
    [] stage = "add_essential_entries" -> "deduplicate_entries"
    [] stage = "deduplicate_entries" -> "build_related_links"
    [] stage = "build_related_links" -> "assign_domain_tags"
    [] stage = "assign_domain_tags" -> "assign_categories"
    [] stage = "assign_categories" -> "assign_usage_frequency"
    [] stage = "assign_usage_frequency" -> "validate_entries"
    [] stage = "validate_entries" -> "create_index"
    [] OTHER -> "return"

\* C11: every step of the driver runs the stage that follows the last one in
\* the order Injector, Deduplicator, Cross-Referencer, Tag Engine, Category
\* Classifier, Frequency Classifier, Validator, index assembly, so each stage
\* runs once, after the one before it has gone over the whole collection.
DriverRunsStagesInOrder ==
  [][last' = stage_order_after(last)]_vars

\* C12: after assign_categories every entry, whatever its type, has exactly
\* one category, and that category is a non-empty string; no entry is added
\* or dropped.
AssignCategoriesTotal ==
  last = "assign_categories" =>
    /\ Len(entries) = Len(before)
    /\ \A i \in 1..Len(entries) :
         /\ entries[i].category # None
         /\ entries[i].category # ""
         /\ entries[i].id = before[i].id

\* An entry no rule of get_category_for_entry matches has been given a
\* category all the same.
AssignCategoriesTotalWitness ==
  /\ last = "assign_categories"
  /\ \E i \in 1..Len(entries) :
       /\ get_category_for_entry(before[i]) = None
       /\ Truthy(entries[i].category)

\* C13: a structure or suffix entry with id GUI:BUTTON:CLICK and no
\* parentStructure is categorised "GUI Elements".
GuiButtonClickIsGuiElement ==
  last = "assign_categories" =>
    \A i \in 1..Len(entries) :
      (/\ before[i].id = "GUI:BUTTON:CLICK"
       /\ ~Truthy(before[i].parent_structure)
       /\ before[i].type \in {"structure", "suffix"})
      => entries[i].category = "GUI Elements"

GuiButtonClickIsGuiElementWitness ==
  /\ last = "assign_categories"
  /\ \E i \in 1..Len(entries) :
       /\ before[i].id = "GUI:BUTTON:CLICK"
       /\ before[i].name = "CLICK"
       /\ before[i].parent_structure = None
       /\ before[i].type = "suffix"
       /\ entries[i].category = "GUI Elements"

\* The decision list of the Frequency Classifier, first match wins.
frequency_decision_list(e) ==
  LET id == upper(e.id)
      name == upper(e.name)
      parent == upper(e.parent_structure)
  IN CASE e.deprecated -> "rare"
       [] id \in COMMON_ENTRIES \/ name \in COMMON_ENTRIES -> "common"
       [] id \in RARE_ENTRIES \/ name \in RARE_ENTRIES -> "rare"
       [] Truthy(e.parent_structure)
          /\ (parent \in COMMON_ENTRIES \/ (parent \o ":" \o name) \in COMMON_ENTRIES)
            -> "moderate"
       [] \E prefix \in {"VESSEL:", "SHIP:", "ORBIT:", "BODY:", "VECTOR:", "DIRECTION:"} :
            startswith(id, prefix) -> "moderate"
       [] contains(id, "GUI") \/ contains(id, "ADDON") -> "rare"
       [] OTHER -> "moderate"

\* C14: the Frequency Classifier gives every entry the value of the first
\* matching rule of its ordered decision list, and that value is one of
\* common, moderate and rare.
FrequencyDecisionList ==
  last = "assign_usage_frequency" =>
    \A i \in 1..Len(entries) :
      /\ entries[i].usage_frequency = frequency_decision_list(before[i])
      /\ entries[i].usage_frequency \in {"common", "moderate", "rare"}

\* An entry on the rare list whose parent rule would have made it moderate.
FrequencyDecisionListWitness ==
  /\ last = "assign_usage_frequency"
  /\ \E i \in 1..Len(entries) :
       /\ ~before[i].deprecated
       /\ upper(before[i].id) \in RARE_ENTRIES
       /\ (upper(before[i].parent_structure) \o ":" \o upper(before[i].name)) \in COMMON_ENTRIES
       /\ entries[i].usage_frequency = "rare"

\* C15: a deprecated entry is classified rare, whether or not its id or
\* name is on the common list.
DeprecatedIsRare ==
  last = "assign_usage_frequency" =>
    \A i \in 1..Len(entries) :
      before[i].deprecated => entries[i].usage_frequency = "rare"

DeprecatedIsRareWitness ==
  /\ last = "assign_usage_frequency"
  /\ \E i \in 1..Len(entries) :
       /\ before[i].deprecated
       /\ upper(before[i].id) \in COMMON_ENTRIES
       /\ upper(before[i].name) \in COMMON_ENTRIES
       /\ entries[i].usage_frequency = "rare"

\* The Suffix entry VESSEL:ALTITUDE of structure VESSEL returning a Scalar.
is_vessel_altitude(e) ==
  /\ e.type = "suffix"
  /\ e.id = "VESSEL:ALTITUDE"
  /\ e.parent_structure = "VESSEL"
  /\ e.return_type = "Scalar"

\* C16: the Tag Engine gives the Suffix VESSEL:ALTITUDE of VESSEL, returning
\* a Scalar, the tags vessel, position and numeric, and not the tag suffix.
VesselAltitudeTags ==
  last = "assign_domain_tags" =>
    \A i \in 1..Len(entries) :
      is_vessel_altitude(before[i]) =>
        /\ {"vessel", "position", "numeric"} \subseteq set_of(entries[i].tags)
        /\ "suffix" \notin set_of(entries[i].tags)

VesselAltitudeTagsWitness ==
  /\ last = "assign_domain_tags"
  /\ \E i \in 1..Len(entries) :
       /\ is_vessel_altitude(before[i])
       /\ before[i].tags = <<>>
       /\ {"vessel", "position", "numeric"} \subseteq set_of(entries[i].tags)

\* C17: validate_entries and validate_tag_coverage hand back a list of
\* strings and leave the collection as it was, entries with an empty id
\* included.
ValidatorsReadOnly ==
  last \in {"validate_entries", "validate_tag_coverage"} =>
    /\ entries = before
    /\ essential_lists = essential_lists_initial
    /\ warnings \in Seq(STRING)

\* validate_entries has reported an entry with an empty id and kept it.
ValidatorsReadOnlyWitness ==
  /\ last = "validate_entries"
  /\ \E i \in 1..Len(entries) : before[i].id = "" /\ entries[i] = before[i]
  /\ warnings # <<>>

\* The ids of rel that are ids of suffixes of the structure id.
own_suffix_ids(id, rel) == {r \in set_of(rel) : startswith(r, id \o ":")}

\* The ids of suffixes of entries[i] the stage has added to its related list
\* though its description does not name them.
linked_suffix_ids(i) ==
  own_suffix_ids(before[i].id, entries[i].related)
    \ (own_suffix_ids(before[i].id, before[i].related) \cup mentioned_ids(before[i], before))

visits_repeated_id ==
  /\ frame.running
  /\ frame'.running
  /\ frame.rest # <<>>
  /\ \E i \in 1..Len(frame.entry_map) : frame.entry_map[i].id = Head(frame.rest).id

\* Where entry_map keeps the entry with the id of the entry about to be
\* visited.
kept_at ==
  CHOOSE i \in 1..Len(frame.entry_map) : frame.entry_map[i].id = Head(frame.rest).id

\* `after` is `kept` but for the fields a merge may touch, and begins its
\* tags and related with those of `kept`.
survives_merged(kept, after) ==
  /\ after = [kept EXCEPT !.snippet = after.snippet, !.description = after.description,
                          !.tags = after.tags, !.related = after.related]
  /\ Len(after.tags) >= Len(kept.tags)
  /\ SubSeq(after.tags, 1, Len(kept.tags)) = kept.tags
  /\ Len(after.related) >= Len(kept.related)
  /\ SubSeq(after.related, 1, Len(kept.related)) = kept.related

\* C19: an entry with a repeated id takes the place of the kept entry if and
\* only if its quality score is strictly greater than the score the kept
\* entry has at that moment; on an equal or lower score the kept entry stays
\* and the new one is merged into it.
DedupReplacesOnlyOnGreaterScore ==
  [][visits_repeated_id =>
       LET new == Head(frame.rest)
           kept == frame.entry_map[kept_at]
           after == frame'.entry_map[kept_at]
       IN /\ Len(frame'.entry_map) = Len(frame.entry_map)
          /\ \A j \in 1..Len(frame.entry_map) :
               j # kept_at => frame'.entry_map[j] = frame.entry_map[j]
          /\ IF _entry_quality_score(new) > _entry_quality_score(kept)
             THEN after = new
             ELSE survives_merged(kept, after)]_vars

\* RawLockBinding, with the score of the kept RawLockLanguage, has been
\* merged into it.
DedupReplacesOnlyOnGreaterScoreWitness ==
  /\ frame.running
  /\ entries = <<RawLockLanguage, RawLockBinding>>
  /\ frame.rest = <<>>
  /\ _entry_quality_score(RawLockBinding) = _entry_quality_score(RawLockLanguage)
  /\ frame.entry_map = <<[RawLockLanguage EXCEPT !.tags = <<"language", "binding">>]>>

\* The elements of new_list that are not in kept_list, each once, in the
\* order of their first occurrence.
not_already_present(kept_list, new_list) ==
  LET fresh == {k \in 1..Len(new_list) :
                  /\ new_list[k] \notin set_of(kept_list)
                  /\ \A j \in 1..(k - 1) : new_list[j] # new_list[k]}
      RECURSIVE in_order(_)
      in_order(k) ==
        IF k > Len(new_list) THEN <<>>
        ELSE (IF k \in fresh THEN <<new_list[k]>> ELSE <<>>) \o in_order(k + 1)
  IN in_order(1)

duplicate_free(list) == Cardinality(set_of(list)) = Len(list)

\* C20: on the merge path the kept entry's non-empty snippet and description
\* stay, an empty one is filled from the new entry's non-empty one, and tags
\* and related become the kept entry's elements in their order followed by
\* the new entry's elements that were not present, without duplicates.
DedupMergeFillsAndUnions ==
  [][(visits_repeated_id
      /\ _entry_quality_score(Head(frame.rest)) <= _entry_quality_score(frame.entry_map[kept_at]))
     =>
       LET new == Head(frame.rest)
           kept == frame.entry_map[kept_at]
           after == frame'.entry_map[kept_at]
       IN /\ Truthy(kept.snippet) => after.snippet = kept.snippet
          /\ Truthy(kept.description) => after.description = kept.description
          /\ (~Truthy(kept.snippet) /\ Truthy(new.snippet)) => after.snippet = new.snippet
          /\ (~Truthy(kept.description) /\ Truthy(new.description))
               => after.description = new.description
          /\ after.tags = kept.tags \o not_already_present(kept.tags, new.tags)
          /\ after.related = kept.related \o not_already_present(kept.related, new.related)
          /\ duplicate_free(after.tags)
          /\ duplicate_free(after.related)]_vars

\* RawLockCore has been merged into the kept RawLockSnippet, and RawLockSteering
\* after it: the description was filled once, the snippet never replaced.
DedupMergeFillsAndUnionsWitness ==
  /\ frame.running
  /\ entries = <<RawLockSnippet, RawLockCore, RawLockSteering>>
  /\ frame.rest = <<>>
  /\ Len(frame.entry_map) = 1
  /\ frame.entry_map[1].snippet = RawLockSnippet.snippet
  /\ frame.entry_map[1].description = RawLockCore.description
  /\ frame.entry_map[1].tags = <<"binding", "language", "core">>
  /\ frame.entry_map[1].related = <<"UNLOCK", "STEERING">>

\* C21: every id an entry has in its related list before build_related_links
\* is still in its related list afterwards.
CrossReferencerKeepsCarriedRelated ==
  last = "build_related_links" =>
    /\ Len(entries) = Len(before)
    /\ \A i \in 1..Len(entries) :
         set_of(before[i].related) \subseteq set_of(entries[i].related)

\* The entries of es whose parent_structure is set and is no entry's id.
dangling_parents(es) ==
  {i \in 1..Len(es) :
     Truthy(es[i].parent_structure) /\ es[i].parent_structure \notin ids_of(es)}

\* C22: validate_cross_references drops the related ids that no entry has
\* and keeps the others in their order, changes nothing else (parentStructure
\* stays), and returns exactly one warning for each entry with a dangling
\* parentStructure and no other warning.
CrossReferencePassRepairsSilently ==
  last = "validate_cross_references" =>
    /\ Len(entries) = Len(before)
    /\ \A i \in 1..Len(entries) :
         /\ [entries[i] EXCEPT !.related = <<>>, !.related_shared = FALSE]
              = [before[i] EXCEPT !.related = <<>>, !.related_shared = FALSE]
         /\ Len(entries[i].related)
              = Cardinality({k \in 1..Len(before[i].related) :
                               before[i].related[k] \in ids_of(before)})
         /\ entries[i].related
              = SelectSeq(before[i].related, LAMBDA r : \E j \in 1..Len(before) : before[j].id = r)
    /\ Len(warnings) = Cardinality(dangling_parents(before))
    /\ \A i \in dangling_parents(before) :
         Cardinality({k \in 1..Len(warnings) :
                        warnings[k] = "Entry " \o before[i].id \o " references non-existent parent: "
                                        \o before[i].parent_structure}) = 1

\* The pass has dropped a dangling related id without a warning for it and
\* has warned about a dangling parentStructure.
CrossReferencePassRepairsSilentlyWitness ==
  /\ last = "validate_cross_references"
  /\ \E i \in 1..Len(entries) : Len(entries[i].related) < Len(before[i].related)
  /\ \E i \in 1..Len(entries) : entries[i].related # <<>>
  /\ dangling_parents(before) # {}
  /\ Len(warnings) = 1

\* C23: an entry whose parentStructure is the id of an entry that is not a
\* Structure gets a warning about its parent from the cross-reference pass.
NonStructureParentWarned ==
  last = "validate_cross_references" =>
    \A i \in 1..Len(before) :
      (\E j \in 1..Len(before) :
         before[j].id = before[i].parent_structure /\ before[j].type # "structure")
      => \E k \in 1..Len(warnings) :
           contains(warnings[k], before[i].id) /\ contains(warnings[k], "parent")

\* The entries of es that no rule of get_category_for_entry matches.
fallen_back(es) == {i \in 1..Len(es) : ~Truthy(get_category_for_entry(es[i]))}

\* C24 as stated: every entry that falls back to the default of its type is
\* counted in the count assign_categories reports.
EveryFallbackCounted ==
  last = "assign_categories" => uncategorized = Cardinality(fallen_back(before))

\* C24 (amended): an entry that falls back is counted only when its default
\* is "Miscellaneous"; one that falls back to "Structures" or "Structure
\* Members" is not counted.
OnlyMiscellaneousCounted ==
  last = "assign_categories" =>
    uncategorized
      = Cardinality({i \in fallen_back(before) : entries[i].category = "Miscellaneous"})

\* A Suffix has fallen back to "Structure Members" and was not counted.
OnlyMiscellaneousCountedWitness ==
  /\ last = "assign_categories"
  /\ \E i \in fallen_back(before) : entries[i].category = "Structure Members"
  /\ uncategorized = 0

\* What the rules of the Tag Engine contribute for an entry: identifier
\* patterns, keyword hints of the name, return type, description hints, the
\* type and the deprecation mark.
rule_contributions(e) ==
  get_tags_from_patterns(e.id)
    \cup get_tags_from_keyword(e.name)
    \cup get_tags_from_return_type(e.return_type)
    \cup get_tags_from_description(e.description)
    \cup tags_of_type(e.type)
    \cup (IF e.deprecated THEN {"deprecated"} ELSE {})

\* C25: the tags the Tag Engine leaves on an entry are in strictly ascending
\* order (sorted, no duplicates); they hold every tag the entry had and
\* every rule contribution; and they hold nothing else unless that union has
\* fewer than 2 tags, when only "misc" and the pattern tags of the
\* parentStructure may be added.
TagEngineSortedUnion ==
  last = "assign_domain_tags" =>
    \A i \in 1..Len(entries) :
      LET out == entries[i].tags
          union == set_of(before[i].tags) \cup rule_contributions(before[i])
          fallback == {"misc"} \cup (IF Truthy(before[i].parent_structure)
                                     THEN get_tags_from_patterns(before[i].parent_structure)
                                     ELSE {})
      IN /\ \A k \in 1..(Len(out) - 1) : str_less(out[k], out[k + 1])
         /\ set_of(before[i].tags) \subseteq set_of(out)
         /\ union \subseteq set_of(out)
         /\ Cardinality(union) >= 2 => set_of(out) = union
         /\ Cardinality(union) < 2 => set_of(out) \subseteq (union \cup fallback)

\* An entry that came with two tags in descending order leaves with them
\* and the rules' tags in ascending order, and without "misc".
TagEngineSortedUnionWitness ==
  /\ last = "assign_domain_tags"
  /\ \E i \in 1..Len(entries) :
       /\ before[i].tags = <<"zeta", "orbit">>
       /\ rule_contributions(before[i]) \ {"zeta", "orbit"} # {}
       /\ Len(entries[i].tags) > 2
       /\ "misc" \notin set_of(entries[i].tags)

\* `a` and `b` are the same entry up to which ids of `candidates` their
\* related lists keep when there are more than 10 of them.
same_up_to_truncation(a, b, candidates) ==
  /\ [a EXCEPT !.related = <<>>] = [b EXCEPT !.related = <<>>]
  /\ IF Cardinality(candidates) <= 10
     THEN set_of(a.related) = candidates /\ set_of(b.related) = candidates
     ELSE /\ Len(a.related) = 10 /\ set_of(a.related) \subseteq candidates
          /\ Len(b.related) = 10 /\ set_of(b.related) \subseteq candidates

\* C26: whatever the order in which the Cross-Referencer, the Tag Engine, the
\* Category Classifier or the Frequency Classifier visits the entries, each
\* entry gets the value it gets when they are visited in list order (for the
\* related list: up to which 10 ids survive the truncation).
PerEntryWorkIndependent ==
  /\ last = "build_related_links" =>
       /\ Len(entries) = Len(before)
       /\ \A i \in 1..Len(entries) :
            same_up_to_truncation(entries[i], build_related_links(before, 0)[i],
                                  related_ids_of(before[i], before))
  /\ last = "assign_domain_tags" => entries = assign_domain_tags(before)
  /\ last = "assign_categories" => entries = assign_categories(before)
  /\ last = "assign_usage_frequency" => entries = assign_usage_frequency(before)

\* The Tag Engine has given new tags to a suffix and to its parent, which
\* comes later in the list.
PerEntryWorkIndependentWitness ==
  /\ last = "assign_domain_tags"
  /\ \E i, j \in 1..Len(entries) :
       /\ i < j
       /\ before[i].parent_structure = before[j].id
       /\ entries[j].tags # before[j].tags
       /\ entries[i].tags # before[i].tags

\* C27: after add_essential_entries, deduplicate_entries, build_related_links
\* and infer_additional_tags the tags and related lists of every row of
\* ESSENTIAL_ENTRIES are what they were at the start.
EssentialTableUnmodified ==
  last \in {"add_essential_entries", "deduplicate_entries", "build_related_links",
            "infer_additional_tags"}
    => essential_lists = essential_lists_initial

\* C28: the entry the Deduplicator returns for an id scores at least as much
\* as every entry of the input list with that id scored when it came in.
SurvivorScoresAtLeastEveryInput ==
  (last = "deduplicate_entries" /\ ~frame.running) =>
    \A i \in 1..Len(before) :
      \E j \in 1..Len(entries) :
        /\ entries[j].id = before[i].id
        /\ _entry_quality_score(entries[j]) >= _entry_quality_score(before[i])

\* Three entries for LOCK came in with the best one in the middle.
SurvivorScoresAtLeastEveryInputWitness ==
  /\ last = "deduplicate_entries"
  /\ ~frame.running
  /\ before = <<RawLockCore, RawLockSnippet, RawLockSteering>>
  /\ Len(entries) = 1
  /\ _entry_quality_score(entries[1]) > _entry_quality_score(RawLockSnippet)

\* C29: after infer_additional_tags on a collection with unique ids, an entry
\* whose parent_structure is the id of an entry of the collection has every
\* tag that entry has then, "core" excepted.
ChildrenHaveParentTags ==
  (last = "infer_additional_tags" /\ ids_unique(before)) =>
    \A i, j \in 1..Len(entries) :
      (Truthy(entries[i].parent_structure) /\ entries[i].parent_structure = entries[j].id)
      => (set_of(entries[j].tags) \ {"core"}) \subseteq set_of(entries[i].tags)

\* C30: every non-deprecated entry whose uppercased id is on the rare list is
\* classified "rare", whatever its name and parentStructure are.
RareIdAlwaysRare ==
  last = "assign_usage_frequency" =>
    \A i \in 1..Len(entries) :
      (~before[i].deprecated /\ upper(before[i].id) \in RARE_ENTRIES)
      => entries[i].usage_frequency = "rare"

\* C30, as the code has it: every non-deprecated entry whose uppercased id is
\* on the rare list and whose uppercased name is not on the common list is
\* classified "rare", whatever its parentStructure is.
RareIdRareUnlessCommonName ==
  last = "assign_usage_frequency" =>
    \A i \in 1..Len(entries) :
      (/\ ~before[i].deprecated
       /\ upper(before[i].id) \in RARE_ENTRIES
       /\ upper(before[i].name) \notin COMMON_ENTRIES)
      => entries[i].usage_frequency = "rare"

\* A rare-listed id under a parent of the common list, with a name that is on
\* neither list, has been classified rare.
RareIdRareUnlessCommonNameWitness ==
  /\ last = "assign_usage_frequency"
  /\ \E i \in 1..Len(entries) :
       /\ ~before[i].deprecated
       /\ upper(before[i].id) \in RARE_ENTRIES
       /\ upper(before[i].name) \notin (COMMON_ENTRIES \cup RARE_ENTRIES)
       /\ Truthy(before[i].parent_structure)
       /\ upper(before[i].parent_structure) \in COMMON_ENTRIES
       /\ entries[i].usage_frequency = "rare"
============================================================================
